---- MODULE Spec2Model ----
(***************************************************************************)
(* State-machine model of the registry-cli release pipeline:               *)
(*   packager.BuildAll / buildBinary / buildUIAndCopy  (builder.go)        *)
(*   packager.RunPackCommand, pkg.Publisher            (part_000)          *)
(*   packager.TarGz                                     (compress.go)      *)
(*   pkg.Indexer, types.Release, types.PublishOpts      (indexer.go)       *)
(*   cmd package / cmd publish                          (cmd/*.go)         *)
(***************************************************************************)
EXTENDS Integers, Sequences, FiniteSets, TLC

(***************************************************************************)
(* Bounds of the model.                                                    *)
(***************************************************************************)
\* RunPackCommand's target list is cut to its first NumTargets entries.
NumTargets == 2
\* Longest platform list handed to BuildAll when it is called on its own.
MaxPlatforms == 2

(***************************************************************************)
(* Platforms, paths.                                                       *)
(***************************************************************************)
Plat(os, arch) == [OS |-> os, Arch |-> arch]

\* The zero value of the Go struct Platform.
ZeroPlatform == Plat("", "")

\* RunPackCommand: targets := []Platform{...}
Targets ==
    << Plat("darwin", "amd64"), Plat("darwin", "arm64"),
       Plat("linux", "amd64"), Plat("linux", "arm64"),
       Plat("windows", "amd64"), Plat("windows", "arm64") >>

SupportedTargets == SubSeq(Targets, 1, NumTargets)

Range(s) == {s[i] : i \in DOMAIN s}

\* Platform.Key: fmt.Sprintf("%s_%s", p.OS, p.Arch)
Key(p) == p.OS \o "_" \o p.Arch

\* filepath.Join of two elements: empty elements are dropped, "." is cleaned away.
Join(a, b) ==
    IF a = "" \/ a = "." THEN (IF b = "" /\ a = "." THEN "." ELSE b)
    ELSE IF b = "" THEN a
    ELSE a \o "/" \o b

Join3(a, b, c) == Join(Join(a, b), c)

\* BuildAll: dir := filepath.Join(pluginDir, outdir, plat.Key())
StagingDir(pd, od, plat) == Join3(pd, od, Key(plat))

\* buildBinary: binName, outPath := filepath.Join(output, "bin", binName)
BinName(plat) == IF plat.OS = "windows" THEN "plugin.exe" ELSE "plugin"
BinOutPath(output, plat) == Join3(output, "bin", BinName(plat))

(***************************************************************************)
(* Errors.  A Go error is modelled by its kind and the cause it formats    *)
(* into its message.                                                       *)
(***************************************************************************)
Nil == [kind |-> "nil", cause |-> ""]
Error(k, c) == [kind |-> k, cause |-> c]

(***************************************************************************)
(* State.                                                                  *)
(***************************************************************************)
VARIABLES
    \* ---- BuildAll ----
    pluginDir,      \* argument pluginDir (PackOpts.PluginDir)
    outdir,         \* argument outdir (PackOpts.OutDir)
    platforms,      \* argument platforms
    bpc,            \* position of BuildAll's own goroutine
    outputDirs,     \* map[string]string: the set of <<key, dir>> pairs stored
    spawnIdx,       \* loop index of step 4 (next binary task to start)
    wg,             \* sync.WaitGroup counter
    uiErrChan,      \* buffered channel (capacity 1) of the UI task's result
    uiPc,           \* position of the UI goroutine
    uiIdx,          \* buildUIAndCopy: loop index over platforms
    uiErr,          \* buildUIAndCopy: the error it is about to return
    uiStarted,      \* how many UI goroutines were started
    binPc,          \* position of each binary goroutine
    binErr,         \* each binary goroutine's local err (what buildBinary returned)
    binResults,     \* the slice binResults
    binFiles,       \* built plugin binaries present on disk (paths)
    dirs,           \* staging directories present on disk (paths)
    fsOps,          \* file-system operations attempted so far (history)
    \* ---- the commands, RunPackCommand, Publisher ----
    cmd,            \* "package", "publish", or "none" when no command runs
    cpc,            \* position of the command's RunE
    cleanFlag,      \* --clean
    publishFlag,    \* --publish
    versionFlag,    \* --version of package, args[1] of publish
    files,          \* regular files on disk: path -> content
    meta,           \* RunPackCommand: the loaded descriptor
    tarIdx,         \* RunPackCommand: loop index over buildResults
    tarCalls,       \* TarGz calls so far (history)
    opts,           \* types.PublishOpts of the run
    releases,       \* Publish: opts.ToReleases()
    upIdx,          \* Publish: loop index over releases
    uploads,        \* Upload calls so far, with their outcome (history)
    cmdErr,         \* what RunE returned
    \* ---- object store and Indexer ----
    store,          \* the bucket: key -> stored document
    storeOps,       \* catalog reads and writes so far (history)
    clock,          \* wall clock read by time.Now()
    calls,          \* UpdateIndex calls started so far
    synced,         \* plugin ids for which an UpdateIndex call returned nil (history)
    ix,             \* per publisher process: the locals of its UpdateIndex call
    \* ---- TarGz ----
    tz              \* the locals of one TarGz call and the files it works on

buildVars ==
    << pluginDir, outdir, platforms, bpc, outputDirs, spawnIdx, wg, uiErrChan,
       uiPc, uiIdx, uiErr, uiStarted, binPc, binErr, binResults, binFiles, dirs, fsOps >>

cmdVars ==
    << cmd, cpc, cleanFlag, publishFlag, versionFlag, files, meta, tarIdx,
       tarCalls, opts, releases, upIdx, uploads, cmdErr >>

idxVars == << store, storeOps, clock, calls, synced, ix >>

tarVars == << tz >>

vars == << buildVars, cmdVars, idxVars, tarVars >>

(***************************************************************************)
(* BuildAll                                                                *)
(***************************************************************************)
\* outputDirs[key]: a missing key reads as the zero value "".
OutputDirOf(k) ==
    IF \E e \in outputDirs : e[1] = k
    THEN (CHOOSE e \in outputDirs : e[1] = k)[2]
    ELSE ""

\* Who performs a file-system operation.
MainTask == [kind |-> "main", idx |-> 0]
UITask == [kind |-> "ui", idx |-> 0]
BinTask(i) == [kind |-> "bin", idx |-> i]

\* One attempted file-system write: the task doing it, the platform it is done
\* for, the directory it goes to and the entry below that directory.
FsOp(task, plat, dir, sub) ==
    [task |-> task, plat |-> plat, dir |-> dir, sub |-> sub]

\* Step 1 and step 2 of BuildAll: MkdirAll is tried for every platform (mkFail:
\* the positions where it fails, which store nothing in outputDirs), then
\* plugin.yaml is copied to filepath.Join(outputDirs[key], "plugin.yaml") for
\* every platform of the list.
MkdirOps ==
    { FsOp(MainTask, platforms[i], StagingDir(pluginDir, outdir, platforms[i]), "bin") :
        i \in DOMAIN platforms }

PreparedDirs(mkFail) ==
    { << Key(platforms[i]), StagingDir(pluginDir, outdir, platforms[i]) >> :
        i \in (DOMAIN platforms) \ mkFail }

CopyMetaOps(prepared) ==
    { FsOp(MainTask, platforms[i],
           IF \E e \in prepared : e[1] = Key(platforms[i])
           THEN StagingDir(pluginDir, outdir, platforms[i]) ELSE "",
           "plugin.yaml") : i \in DOMAIN platforms }

BuildAll_Prepare ==
    /\ bpc = "prepare"
    /\ \E mkFail \in SUBSET (DOMAIN platforms) :
        /\ outputDirs' = PreparedDirs(mkFail)
        /\ dirs' = dirs \cup { e[2] : e \in PreparedDirs(mkFail) }
        /\ fsOps' = fsOps \cup MkdirOps \cup CopyMetaOps(PreparedDirs(mkFail))
    /\ bpc' = "spawnUI"
    /\ UNCHANGED << cmdVars, idxVars >>
    /\ UNCHANGED << tz, pluginDir, outdir, platforms, spawnIdx, wg, uiErrChan, uiPc,
                    uiIdx, uiErr, uiStarted, binPc, binErr, binResults, binFiles >>

\* Step 3: wg.Add(1); go func() { ... buildUIAndCopy ... }()
BuildAll_SpawnUI ==
    /\ bpc = "spawnUI"
    /\ wg' = wg + 1
    /\ uiPc' = "build"
    /\ uiStarted' = uiStarted + 1
    \* binResults := make([]BuildResult, len(platforms))
    /\ binResults' = [i \in DOMAIN platforms |->
                        [Platform |-> ZeroPlatform, OutputDir |-> "", Err |-> Nil]]
    /\ spawnIdx' = 1
    /\ bpc' = "spawnBin"
    /\ UNCHANGED << cmdVars, idxVars >>
    /\ UNCHANGED << tz, pluginDir, outdir, platforms, outputDirs, uiErrChan, uiIdx,
                    uiErr, binPc, binErr, binFiles, dirs, fsOps >>

\* Step 4, one iteration: wg.Add(1); go func(i, plat) {...}(i, plat)
BuildAll_SpawnBin ==
    /\ bpc = "spawnBin"
    /\ spawnIdx <= Len(platforms)
    /\ wg' = wg + 1
    /\ binPc' = [binPc EXCEPT ![spawnIdx] = "running"]
    /\ spawnIdx' = spawnIdx + 1
    /\ UNCHANGED << cmdVars, idxVars >>
    /\ UNCHANGED << tz, pluginDir, outdir, platforms, bpc, outputDirs, uiErrChan, uiPc,
                    uiIdx, uiErr, uiStarted, binErr, binResults, binFiles, dirs, fsOps >>

BuildAll_SpawnEnd ==
    /\ bpc = "spawnBin"
    /\ spawnIdx > Len(platforms)
    /\ bpc' = "wait"
    /\ UNCHANGED << cmdVars, idxVars >>
    /\ UNCHANGED << tz, pluginDir, outdir, platforms, outputDirs, spawnIdx, wg,
                    uiErrChan, uiPc, uiIdx, uiErr, uiStarted, binPc, binErr, binResults,
                    binFiles, dirs, fsOps >>

\* buildUIAndCopy, the bundler run: `pnpm run build` succeeds or fails.
UI_Build ==
    /\ uiPc = "build"
    /\ \E ok \in BOOLEAN :
        IF ok
        THEN /\ uiPc' = "copy"
             /\ uiIdx' = 1
             /\ uiErr' = Nil
        ELSE /\ uiPc' = "send"
             /\ uiErr' = Error("UI build error", "pnpm")
             /\ UNCHANGED uiIdx
    /\ UNCHANGED << cmdVars, idxVars >>
    /\ UNCHANGED << tz, pluginDir, outdir, platforms, bpc, outputDirs, spawnIdx, wg,
                    uiErrChan, uiStarted, binPc, binErr, binResults, binFiles, dirs, fsOps >>

\* buildUIAndCopy, one iteration of the copy loop: the assets directory of
\* platforms[uiIdx] is created and the assets are copied into it.
UIAssetsOp(i) ==
    FsOp(UITask, platforms[i], StagingDir(pluginDir, outdir, platforms[i]), "assets")

UI_Copy ==
    /\ uiPc = "copy"
    /\ uiIdx <= Len(platforms)
    /\ fsOps' = fsOps \cup {UIAssetsOp(uiIdx)}
    /\ \E res \in {"ok", "mkdir", "copy"} :
        CASE res = "ok" ->
                /\ uiIdx' = uiIdx + 1
                /\ dirs' = dirs \cup {StagingDir(pluginDir, outdir, platforms[uiIdx])}
                /\ UNCHANGED << uiPc, uiErr >>
          [] res = "mkdir" ->
                /\ uiErr' = Error("failed to create assets dir", Key(platforms[uiIdx]))
                /\ uiPc' = "send"
                /\ UNCHANGED << uiIdx, dirs >>
          [] res = "copy" ->
                /\ uiErr' = Error("failed to copy UI", Key(platforms[uiIdx]))
                /\ uiPc' = "send"
                /\ dirs' = dirs \cup {StagingDir(pluginDir, outdir, platforms[uiIdx])}
                /\ UNCHANGED uiIdx
    /\ UNCHANGED << cmdVars, idxVars >>
    /\ UNCHANGED << tz, pluginDir, outdir, platforms, bpc, outputDirs, spawnIdx, wg,
                    uiErrChan, uiStarted, binPc, binErr, binResults, binFiles >>

UI_CopyEnd ==
    /\ uiPc = "copy"
    /\ uiIdx > Len(platforms)
    /\ uiPc' = "send"
    /\ UNCHANGED << cmdVars, idxVars >>
    /\ UNCHANGED << tz, pluginDir, outdir, platforms, bpc, outputDirs, spawnIdx, wg,
                    uiErrChan, uiIdx, uiErr, uiStarted, binPc, binErr, binResults, binFiles, dirs,
                    fsOps >>

\* uiErrChan <- err; then the deferred wg.Done()
UI_Send ==
    /\ uiPc = "send"
    /\ Len(uiErrChan) < 1
    /\ uiErrChan' = Append(uiErrChan, uiErr)
    /\ wg' = wg - 1
    /\ uiPc' = "exited"
    /\ UNCHANGED << cmdVars, idxVars >>
    /\ UNCHANGED << tz, pluginDir, outdir, platforms, bpc, outputDirs, spawnIdx, uiIdx,
                    uiErr, uiStarted, binPc, binErr, binResults, binFiles, dirs, fsOps >>

\* The slot of binResults the i-th binary goroutine writes.
ResultSlotAlwaysFirst(i) == 1
ResultSlot(i) == i

\* BuildResult{Platform: plat, OutputDir: dir, Err: err}
BuildResult(plat, dir, err) == [Platform |-> plat, OutputDir |-> dir, Err |-> err]

\* The directory the i-th binary goroutine builds into: outputDirs[plat.Key()]
BinDirOfFirst(i) == OutputDirOf(Key(platforms[1]))
BinDir(i) == OutputDirOf(Key(platforms[i]))

\* The i-th binary goroutine: dir := outputDirs[plat.Key()]; buildBinary; the
\* result is stored; deferred wg.Done().  buildBinary returns nil without
\* building when the binary is already there, else runs the compiler, which
\* succeeds (writing the binary) or fails.
Bin_Run(i) ==
    /\ binPc[i] = "running"
    /\ LET plat == platforms[i]
           dir == BinDir(i)
           outPath == BinOutPath(dir, plat)
       IN  \E err \in {Nil, Error("binary build failed", Key(plat))} :
             /\ IF outPath \in binFiles
                THEN /\ err = Nil
                     /\ UNCHANGED << binFiles, fsOps >>
                ELSE /\ fsOps' = fsOps \cup {FsOp(BinTask(i), plat, dir, "bin")}
                     /\ binFiles' = IF err = Nil THEN binFiles \cup {outPath} ELSE binFiles
             /\ binErr' = [binErr EXCEPT ![i] = err]
             /\ binResults' = [binResults EXCEPT ![ResultSlot(i)] = BuildResult(plat, dir, err)]
    /\ binPc' = [binPc EXCEPT ![i] = "exited"]
    /\ wg' = wg - 1
    /\ UNCHANGED << cmdVars, idxVars >>
    /\ UNCHANGED << tz, pluginDir, outdir, platforms, bpc, outputDirs, spawnIdx,
                    uiErrChan, uiPc, uiIdx, uiErr, uiStarted, dirs >>

\* wg.Wait() returns when the counter is zero.
WaitReturnsAtOnce == TRUE
WaitDone == wg = 0

BuildAll_Wait ==
    /\ bpc = "wait"
    /\ WaitDone
    /\ bpc' = "recv"
    /\ UNCHANGED << cmdVars, idxVars >>
    /\ UNCHANGED << tz, pluginDir, outdir, platforms, outputDirs, spawnIdx, wg,
                    uiErrChan, uiPc, uiIdx, uiErr, uiStarted, binPc, binErr, binResults,
                    binFiles, dirs, fsOps >>

\* if err := <-uiErrChan; err != nil { every result with Err == nil gets the
\* UI error }; return binResults
InvalidatedAll(res, err) == [res EXCEPT !.Err = Error("UI build failed", err.kind)]
Invalidated(res, err) ==
    IF res.Err = Nil
    THEN [res EXCEPT !.Err = Error("UI build failed", err.kind)]
    ELSE res

\* if err := <-uiErrChan; err != nil
UIFailedAlways(err) == TRUE
UIFailed(err) == err # Nil

BuildAll_Return ==
    /\ bpc = "recv"
    /\ Len(uiErrChan) > 0
    /\ LET err == Head(uiErrChan)
       IN  binResults' =
             IF UIFailed(err)
             THEN [i \in DOMAIN binResults |-> Invalidated(binResults[i], err)]
             ELSE binResults
    /\ uiErrChan' = Tail(uiErrChan)
    /\ bpc' = "done"
    /\ UNCHANGED << cmdVars, idxVars >>
    /\ UNCHANGED << tz, pluginDir, outdir, platforms, outputDirs, spawnIdx, wg, uiPc,
                    uiIdx, uiErr, uiStarted, binPc, binErr, binFiles, dirs, fsOps >>

BuildStep ==
    \/ BuildAll_Prepare
    \/ BuildAll_SpawnUI
    \/ BuildAll_SpawnBin
    \/ BuildAll_SpawnEnd
    \/ UI_Build
    \/ UI_Copy
    \/ UI_CopyEnd
    \/ UI_Send
    \/ \E i \in DOMAIN platforms : Bin_Run(i)
    \/ BuildAll_Wait
    \/ BuildAll_Return

(***************************************************************************)
(* Files, descriptors, releases.                                           *)
(***************************************************************************)
\* A function with one more (or one overwritten) entry, and with entries removed.
Put(f, k, v) == (k :> v) @@ f
Without(f, ks) == [k \in (DOMAIN f) \ ks |-> f[k]]

\* The required fields of a descriptor that the pipeline only tests for
\* presence.
RequiredRest == {"repository", "website", "maintainers", "capabilities"}

\* The fields of the descriptor the pipeline reads; Rest holds the names of
\* the fields of RequiredRest the descriptor fills in.
Meta(id, version, name, icon, description) ==
    [ID |-> id, Version |-> version, Name |-> name, Icon |-> icon,
     Description |-> description, Rest |-> RequiredRest]

\* PluginMeta{} / PluginMetadata{}: the zero value.
EmptyMeta == [Meta("", "", "", "", "") EXCEPT !.Rest = {}]

\* A descriptor that leaves one field of RequiredRest out.
Lacking(m, field) == [m EXCEPT !.Rest = @ \ {field}]

\* File contents: a descriptor (plugin.yaml) or an archive.  An archive is
\* known by its bytes; origin tells who wrote it ("stale": an earlier run,
\* "fresh": this run's TarGz, "partial": a TarGz that failed midway).
YamlFile(m) == [tag |-> "yaml", meta |-> m]
\* io tells how the file behaves when it is used: "ok", or it cannot be opened
\* ("noopen"), opens but cannot be read ("readerr"), or is gone by the time
\* it is stat'ed ("nostat").
ArchiveFile(origin, key) ==
    [tag |-> "targz", bytes |-> << origin, key >>, origin |-> origin, io |-> "ok"]
Faulty(f, io) == [f EXCEPT !.io = io]

\* os.Open(path) of an archive, io.Copy out of it, os.Stat(path)
Opens(fs, path) == path \in DOMAIN fs /\ fs[path].tag = "targz" /\ fs[path].io # "noopen"
Reads(fs, path) == fs[path].io # "readerr"
Stats(fs, path) == fs[path].io # "nostat"
SidecarFile(digest) == [tag |-> "sha256", digest |-> digest]

\* sha256 + hex.EncodeToString over a byte sequence.
Sha256Hex(bytes) == << "sha256", bytes >>

\* os.Stat(path).Size()
FileSize(c) == IF c.origin = "partial" THEN 1 ELSE 2

ArchiveName(plat) == Key(plat) \o ".tar.gz"

\* RunPackCommand: filepath.Join(opts.PluginDir, fmt.Sprintf("%s/%s.tar.gz", opts.OutDir, key))
PackOutPath(pd, od, plat) == Join(pd, od \o "/" \o ArchiveName(plat))

\* packageCmd: filepath.Join(outdir, "<os>_<arch>.tar.gz")
PublishPath(od, plat) == Join(od, ArchiveName(plat))

\* filepath.Join(dir, "plugin.yaml")
DescriptorPath(pd) == Join(pd, "plugin.yaml")

\* types.Release
Release(plugin, version, plat, path) ==
    [Plugin |-> plugin, Version |-> version, OS |-> plat.OS, Arch |-> plat.Arch,
     Path |-> path]

\* Release.BucketPath: fmt.Sprintf("%s/%s/%s-%s.tar.gz", Plugin, Version, OS, Arch)
BucketPathUnderscore(r) ==
    r.Plugin \o "/" \o r.Version \o "/" \o r.OS \o "_" \o r.Arch \o ".tar.gz"
BucketPath(r) ==
    r.Plugin \o "/" \o r.Version \o "/" \o r.OS \o "-" \o r.Arch \o ".tar.gz"

\* Release.OSArch: fmt.Sprintf("%s_%s", OS, Arch)
OSArchHyphen(r) == r.OS \o "-" \o r.Arch
OSArch(r) == r.OS \o "_" \o r.Arch

\* The order in which PublishOpts.ToReleases tests the per-platform paths.
FlagOrder ==
    << Plat("darwin", "arm64"), Plat("darwin", "amd64"),
       Plat("windows", "arm64"), Plat("windows", "amd64"),
       Plat("linux", "arm64"), Plat("linux", "amd64") >>

\* types.PublishOpts; Paths maps a platform key to the path given for it
\* (a key without entry is a path left empty).
PublishOpts(plugin, version, metadataPath, paths) ==
    [Plugin |-> plugin, Version |-> version, MetadataPath |-> metadataPath,
     Paths |-> paths]

PathOf(o, plat) == IF Key(plat) \in DOMAIN o.Paths THEN o.Paths[Key(plat)] ELSE ""

\* PublishOpts.ToReleases: one Release per non-empty path, in FlagOrder.
RECURSIVE ToReleasesFrom(_, _)
ToReleasesFrom(o, i) ==
    IF i > Len(FlagOrder) THEN << >>
    ELSE LET plat == FlagOrder[i]
             rest == ToReleasesFrom(o, i + 1)
         IN  IF PathOf(o, plat) # ""
             THEN << Release(o.Plugin, o.Version, plat, PathOf(o, plat)) >> \o rest
             ELSE rest

\* A release for every platform, whether or not a path is given for it.
ToReleasesAll(o) ==
    [i \in DOMAIN FlagOrder |->
        Release(o.Plugin, o.Version, FlagOrder[i], PathOf(o, FlagOrder[i]))]

ToReleases(o) == ToReleasesFrom(o, 1)

\* LoadMetadata: the descriptor at path, or the zero value when it cannot be
\* opened or decoded.
LoadMetadata(fs, path) ==
    IF path \in DOMAIN fs /\ fs[path].tag = "yaml" THEN fs[path].meta ELSE EmptyMeta

(***************************************************************************)
(* TarGz                                                                   *)
(***************************************************************************)
\* The points where TarGz can fail, in the order of its steps; "none": success.
TarStages == << "create", "walk", "close", "sidecar", "cleanup", "none" >>

StageNo(st) == CHOOSE i \in DOMAIN TarStages : TarStages[i] = st

\* The stages where a call on sourceDir may fail: the walk of a directory that
\* does not exist fails at the latest.
TarFailures(ds, sourceDir) ==
    IF sourceDir \in ds THEN Range(TarStages) ELSE {"create", "walk"}

\* The files after TarGz(sourceDir, outPath) failing at stage failAt.
TarGzFiles(fs, outPath, key, failAt) ==
    LET n == StageNo(failAt)
        created == IF n >= 2 THEN Put(fs, outPath, ArchiveFile("partial", key)) ELSE fs
        closed == IF n >= 4 THEN Put(created, outPath, ArchiveFile("fresh", key)) ELSE created
    IN  IF n >= 5
        THEN Put(closed, outPath \o ".sha256",
                 SidecarFile(Sha256Hex(ArchiveFile("fresh", key).bytes)))
        ELSE closed

\* os.RemoveAll(sourceDir) runs only when every earlier step succeeded.
TarGzDirs(ds, sourceDir, failAt) ==
    IF failAt = "none" THEN ds \ {sourceDir} ELSE ds

TarGzErr(key, failAt) ==
    IF failAt = "none" THEN Nil ELSE Error("TarGz", failAt)

(***************************************************************************)
(* RunPackCommand                                                          *)
(***************************************************************************)
\* Everything below the directory root that the model knows of.
ArchivesUnder(root) ==
    UNION { {Join(root, ArchiveName(t)), Join(root, ArchiveName(t)) \o ".sha256"} :
              t \in Range(SupportedTargets) }
DirsUnder(root) == { Join(root, Key(t)) : t \in Range(SupportedTargets) }
BinsUnder(root) == { BinOutPath(Join(root, Key(t)), t) : t \in Range(SupportedTargets) }

\* PluginMetadata.Validate: the list it calls missing.
MissingFields(m) ==
    { f \in {"id", "name", "version", "description"} :
        \/ f = "id" /\ m.ID = ""
        \/ f = "name" /\ m.Name = ""
        \/ f = "version" /\ m.Version = ""
        \/ f = "description" /\ m.Description = "" }
    \cup (RequiredRest \ m.Rest)

\* PluginMetadata.Validate
ValidateAcceptsAll(m) == Nil
Validate(m) ==
    IF MissingFields(m) # {}
    THEN Error("plugin.yaml is missing required fields", "")
    ELSE Nil

CmdReturn(err) ==
    /\ cpc' = "returned"
    /\ cmdErr' = err

\* The state in which BuildAll is entered.
BuildCall(plats) ==
    /\ platforms' = plats
    /\ bpc' = "prepare"
    /\ outputDirs' = {}
    /\ spawnIdx' = 0
    /\ wg' = 0
    /\ uiErrChan' = << >>
    /\ uiPc' = "none"
    /\ uiIdx' = 0
    /\ uiErr' = Nil
    /\ uiStarted' = 0
    /\ binPc' = [i \in DOMAIN plats |-> "none"]
    /\ binErr' = [i \in DOMAIN plats |-> Nil]
    /\ binResults' = << >>

buildLocals ==
    << platforms, bpc, outputDirs, spawnIdx, wg, uiErrChan, uiPc, uiIdx, uiErr,
       uiStarted, binPc, binErr, binResults >>

\* RunPackCommand up to its call of BuildAll: the checks of OutDir, the clean,
\* the load, validation and save of the descriptor.
Pack_Start ==
    /\ cmd = "package"
    /\ cpc = "pack"
    /\ LET descPath == DescriptorPath(pluginDir) IN
       \E cleanOK \in BOOLEAN, saveOK \in BOOLEAN :
         LET cleaned == cleanFlag /\ cleanOK /\ outdir # "" /\ outdir # "/"
             fs1 == IF cleaned THEN Without(files, ArchivesUnder(outdir)) ELSE files
             loaded == LoadMetadata(fs1, descPath)
             stamped == [loaded EXCEPT !.Version = versionFlag]
             err ==
                IF outdir = "" THEN Error("cannot build to empty directory", "")
                ELSE IF outdir = "/" THEN Error("DANGER", "")
                ELSE IF cleanFlag /\ ~cleanOK THEN Error("failed to clean output directory", "")
                ELSE IF descPath \notin DOMAIN fs1 THEN Error("invalid plugin.yaml", "")
                ELSE IF Validate(loaded) # Nil THEN Validate(loaded)
                ELSE IF ~saveOK THEN Error("save", "")
                ELSE Nil
         IN  /\ (cleanFlag \/ cleanOK)
             /\ (saveOK \/ (err = Error("save", "")))
             /\ IF cleaned
                THEN /\ dirs' = dirs \ DirsUnder(outdir)
                     /\ binFiles' = binFiles \ BinsUnder(outdir)
                ELSE UNCHANGED << dirs, binFiles >>
             /\ IF err = Nil
                THEN /\ files' = Put(fs1, descPath, YamlFile(stamped))
                     /\ meta' = stamped
                     /\ cpc' = "tar"
                     /\ tarIdx' = 1
                     /\ BuildCall(SupportedTargets)
                     /\ UNCHANGED cmdErr
                ELSE /\ files' = fs1
                     /\ CmdReturn(err)
                     /\ UNCHANGED << meta, tarIdx, buildLocals >>
    /\ UNCHANGED << tz, pluginDir, outdir, fsOps, cmd, cleanFlag, publishFlag,
                    versionFlag, tarCalls, opts, releases, upIdx, uploads, idxVars >>

\* One TarGz call as RunPackCommand sees it (history).
TarCall(result, outPath, failAt) ==
    [Platform |-> result.Platform, OutputDir |-> result.OutputDir,
     Err |-> result.Err, out |-> outPath, failAt |-> failAt]

\* Whether RunPackCommand archives a build result.
ArchivesEveryResult(result) == TRUE
ShouldArchive(result) == result.Err = Nil

\* RunPackCommand, one iteration of the loop over buildResults.
Pack_Tar ==
    /\ cmd = "package"
    /\ cpc = "tar"
    /\ bpc = "done"
    /\ tarIdx <= Len(binResults)
    /\ LET result == binResults[tarIdx]
           out == PackOutPath(pluginDir, outdir, result.Platform)
       IN  IF ~ShouldArchive(result)
           THEN /\ tarIdx' = tarIdx + 1
                /\ UNCHANGED << files, dirs, binFiles, tarCalls, cpc, cmdErr >>
           ELSE \E failAt \in TarFailures(dirs, result.OutputDir) :
                  /\ files' = TarGzFiles(files, out, Key(result.Platform), failAt)
                  /\ dirs' = TarGzDirs(dirs, result.OutputDir, failAt)
                  /\ binFiles' = IF failAt = "none"
                                 THEN binFiles \ {BinOutPath(result.OutputDir, result.Platform)}
                                 ELSE binFiles
                  /\ tarCalls' = tarCalls \cup {TarCall(result, out, failAt)}
                  /\ IF failAt = "none"
                     THEN /\ tarIdx' = tarIdx + 1
                          /\ UNCHANGED << cpc, cmdErr >>
                     ELSE /\ CmdReturn(Error("compression failed", Key(result.Platform)))
                          /\ UNCHANGED tarIdx
    /\ UNCHANGED << tz, pluginDir, outdir, fsOps, buildLocals, cmd, cleanFlag,
                    publishFlag, versionFlag, meta, opts, releases, upIdx, uploads,
                    idxVars >>

\* packageCmd: publishOpts names an archive path for every target.
PackagePublishOpts(m, pd, od) ==
    PublishOpts(m.ID, m.Version, DescriptorPath(pd),
                [k \in {Key(t) : t \in Range(SupportedTargets)} |->
                    PublishPath(od, CHOOSE t \in Range(SupportedTargets) : Key(t) = k)])

\* RunPackCommand returns (meta, nil); packageCmd returns when --publish is
\* not set and else builds publishOpts.
Pack_Return ==
    /\ cmd = "package"
    /\ cpc = "tar"
    /\ bpc = "done"
    /\ tarIdx > Len(binResults)
    /\ IF publishFlag
       THEN /\ opts' = PackagePublishOpts(meta, pluginDir, outdir)
            /\ cpc' = "publish"
            /\ UNCHANGED cmdErr
       ELSE /\ CmdReturn(Nil)
            /\ UNCHANGED opts
    /\ UNCHANGED << tz, buildVars, cmd, cleanFlag, publishFlag, versionFlag, files, meta,
                    tarIdx, tarCalls, releases, upIdx, uploads, idxVars >>

(***************************************************************************)
(* Object store documents.  json.Marshal writes a time.Time as its wall    *)
(* clock instant; the monotonic reading time.Now() attaches is lost, and   *)
(* json.Unmarshal yields a time without it.                                *)
(***************************************************************************)
Now(c) == [wall |-> c, mono |-> TRUE]
ZeroTime == [wall |-> 0, mono |-> FALSE]
MarshalTime(t) == t.wall
UnmarshalTime(w) == [wall |-> w, mono |-> FALSE]

\* types.PluginVersionInformation
VersionInfo(metadata, version, archs, created, updated) ==
    [Metadata |-> metadata, Version |-> version, Architectures |-> archs,
     Created |-> created, Updated |-> updated]

ZeroVersionInfo == VersionInfo(EmptyMeta, "", << >>, ZeroTime, ZeroTime)

\* types.PluginArchitectureInformation
ArchInfo(checksum, url, size) ==
    [Checksum |-> checksum, DownloadURL |-> url, Size |-> size]

\* types.RegistryIndexPlugins
RegistryEntry(id, name, icon, description, official, latest) ==
    [ID |-> id, Name |-> name, Icon |-> icon, Description |-> description,
     Official |-> official, LatestVersion |-> latest]

\* types.PluginIndex: the embedded RegistryIndexPlugins and Versions
PluginIndex(entry, versions) ==
    [ID |-> entry.ID, Name |-> entry.Name, Icon |-> entry.Icon,
     Description |-> entry.Description, Official |-> entry.Official,
     LatestVersion |-> entry.LatestVersion, Versions |-> versions]

\* types.RegistryIndex
RegistryIndex(plugins) == [Plugins |-> plugins]

MarshalVersion(v) ==
    [metadata |-> v.Metadata, version |-> v.Version, architectures |-> v.Architectures,
     created |-> MarshalTime(v.Created), updated |-> MarshalTime(v.Updated)]

UnmarshalVersion(j) ==
    VersionInfo(j.metadata, j.version, j.architectures,
                UnmarshalTime(j.created), UnmarshalTime(j.updated))

MarshalEntry(e) ==
    [id |-> e.ID, name |-> e.Name, icon |-> e.Icon, description |-> e.Description,
     official |-> e.Official, latest_version |-> MarshalVersion(e.LatestVersion)]

UnmarshalEntry(j) ==
    RegistryEntry(j.id, j.name, j.icon, j.description, j.official,
                  UnmarshalVersion(j.latest_version))

\* json.Marshal(types.PluginIndex)
MarshalPluginIndex(x) ==
    [doc |-> "plugin", id |-> x.ID, name |-> x.Name, icon |-> x.Icon,
     description |-> x.Description, official |-> x.Official,
     latest_version |-> MarshalVersion(x.LatestVersion),
     versions |-> [i \in DOMAIN x.Versions |-> MarshalVersion(x.Versions[i])]]

\* json.Unmarshal(body, &types.PluginIndex{})
UnmarshalPluginIndex(j) ==
    PluginIndex(UnmarshalEntry(j),
                [i \in DOMAIN j.versions |-> UnmarshalVersion(j.versions[i])])

\* json.Marshal(types.RegistryIndex)
MarshalRegistryIndex(x) ==
    [doc |-> "registry",
     plugins |-> [i \in DOMAIN x.Plugins |-> MarshalEntry(x.Plugins[i])]]

\* json.Unmarshal(body, &types.RegistryIndex{})
UnmarshalRegistryIndex(j) ==
    RegistryIndex([i \in DOMAIN j.plugins |-> UnmarshalEntry(j.plugins[i])])

\* An uploaded release artifact.
ArtifactObject(content) == [doc |-> "artifact", bytes |-> content.bytes]

\* getPluginIndex: fmt.Sprintf("%s/index.json", plugin); PluginIndex.BucketPath
PluginIndexKey(plugin) == plugin \o "/index.json"
\* getRegistryIndex / setRegistryIndex
RegistryIndexKey == "index.json"

(***************************************************************************)
(* Publisher                                                               *)
(***************************************************************************)
\* Publisher.Upload: what it returns for the outcome of os.Open (opened), of
\* PutObject (put: "ok", "EntityTooLarge", "other") and of the wait for the
\* object to exist (confirmed).
UploadErrGeneric(r, opened, put, confirmed) ==
    IF opened /\ put = "ok" /\ confirmed THEN Nil
    ELSE Error("couldn't upload file", BucketPath(r))
UploadErr(r, opened, put, confirmed) ==
    IF ~opened THEN Error("couldn't open file", r.Path)
    ELSE IF put = "EntityTooLarge" THEN Error("the object is too large", "")
    ELSE IF put # "ok" THEN Error("couldn't upload file", BucketPath(r))
    ELSE IF ~confirmed THEN Error("failed attempt to wait for object", BucketPath(r))
    ELSE Nil

\* Publisher.Upload: the string it returns next to the error.
UploadKey(r, err) == IF err = Nil THEN BucketPath(r) ELSE ""

\* One Upload call (history): the release, whether PutObject was issued, the
\* content sent, what PutObject answered ("none" when it was not issued),
\* whether the wait confirmed the object, the key and the error returned.
UploadCall(r, opened, content, put, confirmed, err) ==
    [release |-> r, put |-> opened, origin |-> content,
     answer |-> IF opened THEN put ELSE "none",
     confirmed |-> opened /\ put = "ok" /\ confirmed,
     key |-> UploadKey(r, err), err |-> err]

\* Publish: if err != nil { return err }
UploadNeverAborts(err) == FALSE
UploadAborts(err) == err # Nil

\* Publish: releases := opts.ToReleases()
Pub_Start ==
    /\ cpc = "publish"
    /\ releases' = ToReleases(opts)
    /\ upIdx' = 1
    /\ cpc' = "upload"
    /\ UNCHANGED << tz, buildVars, cmd, cleanFlag, publishFlag, versionFlag, files, meta,
                    tarIdx, tarCalls, opts, uploads, cmdErr, idxVars >>

\* Publish, one iteration: Upload(release); the first error ends Publish and
\* the command.
Pub_Upload ==
    /\ cpc = "upload"
    /\ upIdx <= Len(releases)
    /\ LET r == releases[upIdx]
           opened == Opens(files, r.Path)
       IN  \E put \in {"ok", "EntityTooLarge", "other"}, confirmed \in BOOLEAN :
             LET err == UploadErr(r, opened, put, confirmed) IN
             /\ opened \/ (put = "ok" /\ confirmed)
             /\ (put = "ok") \/ confirmed
             /\ store' = IF opened /\ put = "ok"
                         THEN Put(store, BucketPath(r), ArtifactObject(files[r.Path]))
                         ELSE store
             /\ uploads' = Append(uploads,
                    UploadCall(r, opened, IF opened THEN files[r.Path].origin ELSE "",
                               put, confirmed, err))
             /\ IF UploadAborts(err)
                THEN /\ CmdReturn(err)
                     /\ UNCHANGED upIdx
                ELSE /\ upIdx' = upIdx + 1
                     /\ UNCHANGED << cpc, cmdErr >>
    /\ UNCHANGED << tz, buildVars, cmd, cleanFlag, publishFlag, versionFlag, files, meta,
                    tarIdx, tarCalls, opts, releases, storeOps, clock, calls, synced, ix >>

(***************************************************************************)
(* Indexer                                                                 *)
(***************************************************************************)
\* The publisher processes: each runs one UpdateIndex call at a time.
Procs == {1, 2}

\* The locals of one UpdateIndex call.
IdleCall ==
    [pc |-> "idle", opts |-> PublishOpts("", "", "", << >>), metadata |-> EmptyMeta,
     index |-> PluginIndex(RegistryEntry("", "", "", "", FALSE, ZeroVersionInfo), << >>),
     pluginIndex |-> PluginIndex(RegistryEntry("", "", "", "", FALSE, ZeroVersionInfo), << >>),
     registry |-> RegistryIndex(<< >>),
     err |-> Nil]

StartedCall(o) == [IdleCall EXCEPT !.pc = "getPlugin", !.opts = o]

\* One catalog access (history).
StoreOp(q, op, key) == [proc |-> q, op |-> op, key |-> key]

\* getPluginIndex, when the object is absent: a minimal index keyed by plugin.
MinimalPluginIndex(plugin) ==
    PluginIndex(RegistryEntry(plugin, plugin, "", "", FALSE, ZeroVersionInfo), << >>)

\* getPluginIndex / getRegistryIndex: GetObject fails for another reason than
\* NoSuchKey ("get"), the body cannot be read ("read") or decoded ("decode"),
\* or the call succeeds ("ok": the object, or none).  A body is read and
\* decoded only when the object exists.
FetchOutcomes(st, key) ==
    IF key \in DOMAIN st THEN {"ok", "get", "read", "decode"} ELSE {"ok", "get"}

FetchErr(outcome, what) ==
    IF outcome = "ok" THEN Nil
    ELSE IF outcome = "get" THEN Error("couldn't get " \o what, "")
    ELSE IF outcome = "read" THEN Error("couldn't read object body", "")
    ELSE Error("couldn't decode object body to json", "")

\* UpdateIndex: if err != nil { return err }
FetchNeverAborts(err) == FALSE
FetchAborts(err) == err # Nil

\* getPluginIndex: the index it returns.
FetchedPluginIndex(st, plugin, outcome) ==
    IF outcome # "ok" THEN IdleCall.index
    ELSE IF PluginIndexKey(plugin) \in DOMAIN st
         THEN UnmarshalPluginIndex(st[PluginIndexKey(plugin)])
         ELSE MinimalPluginIndex(plugin)

\* getRegistryIndex: the index it returns.
FetchedRegistryIndex(st, outcome) ==
    IF outcome = "ok" /\ RegistryIndexKey \in DOMAIN st
    THEN UnmarshalRegistryIndex(st[RegistryIndexKey])
    ELSE RegistryIndex(<< >>)

\* UpdateIndex: metadata := LoadMetadata(...); index, err := getPluginIndex(...)
Idx_GetPlugin(q) ==
    /\ ix[q].pc = "getPlugin"
    /\ LET key == PluginIndexKey(ix[q].opts.Plugin) IN
       /\ storeOps' = storeOps \cup {StoreOp(q, "get", key)}
       /\ \E outcome \in FetchOutcomes(store, key) :
            LET err == FetchErr(outcome, "plugin index") IN
            ix' = [ix EXCEPT ![q] =
                [@ EXCEPT !.pc = IF FetchAborts(err) THEN "returned" ELSE "setPlugin",
                          !.err = err,
                          !.metadata = LoadMetadata(files, ix[q].opts.MetadataPath),
                          !.index = FetchedPluginIndex(store, ix[q].opts.Plugin, outcome)]]
    /\ UNCHANGED << tz, buildVars, cmdVars, store, clock, calls, synced >>

\* updateIndex: if release.Plugin != index.ID { continue }
NeverSkipped(r, id) == FALSE
Skipped(r, id) == r.Plugin # id

\* updateIndex: info.Size, left zero when os.Stat fails.
SizeOf(fs, path) == IF Stats(fs, path) THEN FileSize(fs[path]) ELSE 0

\* updateIndex, the loop over the releases: the architectures map after the
\* first i releases.  A release of another plugin is skipped.
RECURSIVE Architectures(_, _, _, _)
Architectures(id, rels, i, fs) ==
    IF i = 0 THEN << >>
    ELSE LET r == rels[i]
             prev == Architectures(id, rels, i - 1, fs)
         IN  IF Skipped(r, id) THEN prev
             ELSE Put(prev, OSArch(r),
                      ArchInfo(Sha256Hex(fs[r.Path].bytes), BucketPath(r),
                               SizeOf(fs, r.Path)))

\* updateIndex calls log.Fatal when the file of a release it does not skip
\* cannot be opened or read, and panics on an empty release list.
NeverFatal(id, rels, fs) == FALSE
UpdateFatal(id, rels, fs) ==
    \E i \in DOMAIN rels :
        /\ ~Skipped(rels[i], id)
        /\ ~(Opens(fs, rels[i].Path) /\ Reads(fs, rels[i].Path))

UpdatePanics(rels) == Len(rels) < 1

\* A merge that keeps only the new record.
updateIndexReplacing(index, rels, metadata, t1, t2, fs) ==
    LET versionInfo ==
            VersionInfo(metadata, rels[1].Version, << >>, t1, t2)
    IN  [index EXCEPT !.LatestVersion = versionInfo,
                      !.Versions = << versionInfo >>]

\* updateIndex: the record of the version is built with both stamps taken
\* from time.Now(), set as latest and appended; name, description and icon
\* come from the descriptor.
updateIndex(index, rels, metadata, t1, t2, fs) ==
    LET versionInfo ==
            VersionInfo(metadata, rels[1].Version,
                        Architectures(index.ID, rels, Len(rels), fs),
                        t1, t2)
    IN  [index EXCEPT !.LatestVersion = versionInfo,
                      !.Versions = Append(@, versionInfo),
                      !.Description = metadata.Description,
                      !.Icon = metadata.Icon,
                      !.Name = metadata.Name]

\* Indexer.store: PutObject fails (nothing is written), or succeeds and the
\* wait for the object fails (written, error returned), or all is well.
StoreOutcomes == {"ok", "put", "wait"}
StoreWritesNever(outcome) == FALSE
StoreWrites(outcome) == outcome # "put"
StoreErr(outcome, key) ==
    IF outcome = "ok" THEN Nil
    ELSE IF outcome = "put" THEN Error("couldn't upload plugin index", key)
    ELSE Error("failed attempt to wait for object", key)

\* UpdateIndex: releases := opts.ToReleases(); pluginIndex := updateIndex(...);
\* setPluginIndex(pluginIndex)
Idx_SetPlugin(q) ==
    /\ ix[q].pc = "setPlugin"
    /\ LET rels == ToReleases(ix[q].opts)
           index == ix[q].index
       IN  IF UpdatePanics(rels) \/ UpdateFatal(index.ID, rels, files)
           THEN /\ ix' = [ix EXCEPT ![q].pc = "crashed"]
                /\ UNCHANGED << store, storeOps, clock >>
           ELSE LET updated == updateIndex(index, rels, ix[q].metadata,
                                           Now(clock + 1), Now(clock + 2), files)
                    key == PluginIndexKey(updated.ID)
                IN  /\ clock' = clock + 2
                    /\ \E outcome \in StoreOutcomes :
                         /\ store' = IF StoreWrites(outcome)
                                     THEN Put(store, key, MarshalPluginIndex(updated))
                                     ELSE store
                         /\ storeOps' = storeOps \cup {StoreOp(q, "put", key)}
                         /\ ix' = [ix EXCEPT ![q] =
                               IF outcome = "ok"
                               THEN [@ EXCEPT !.pc = "getRegistry", !.pluginIndex = updated]
                               ELSE [@ EXCEPT !.pc = "returned", !.pluginIndex = updated,
                                              !.err = StoreErr(outcome, key)]]
    /\ UNCHANGED << tz, buildVars, cmdVars, calls, synced >>

\* UpdateIndex: registryIndex, err := getRegistryIndex(ctx)
Idx_GetRegistry(q) ==
    /\ ix[q].pc = "getRegistry"
    /\ storeOps' = storeOps \cup {StoreOp(q, "get", RegistryIndexKey)}
    /\ \E outcome \in FetchOutcomes(store, RegistryIndexKey) :
         LET err == FetchErr(outcome, "registry index") IN
         ix' = [ix EXCEPT ![q] =
             [@ EXCEPT !.pc = IF FetchAborts(err) THEN "returned" ELSE "setRegistry",
                       !.err = err,
                       !.registry = FetchedRegistryIndex(store, outcome)]]
    /\ UNCHANGED << tz, buildVars, cmdVars, store, clock, calls, synced >>

\* The entry UpdateIndex writes for a plugin index.
EntryWithoutLatest(pluginIndex) ==
    RegistryEntry(pluginIndex.ID, pluginIndex.Name, pluginIndex.Icon,
                  pluginIndex.Description, TRUE, ZeroVersionInfo)
EntryOf(pluginIndex) ==
    RegistryEntry(pluginIndex.ID, pluginIndex.Name, pluginIndex.Icon,
                  pluginIndex.Description, TRUE, pluginIndex.LatestVersion)

\* The position UpdateIndex's loop stops at: the first entry with the id, or 0.
AlwaysNotFound(plugins, id) == 0
FindPlugin(plugins, id) ==
    IF \E i \in DOMAIN plugins : plugins[i].ID = id
    THEN CHOOSE i \in DOMAIN plugins :
            /\ plugins[i].ID = id
            /\ \A j \in 1..(i - 1) : plugins[j].ID # id
    ELSE 0

\* UpdateIndex: the entry of the plugin is replaced in place, or appended.
UpsertAlone(registryIndex, pluginIndex) ==
    [registryIndex EXCEPT !.Plugins = << EntryOf(pluginIndex) >>]
Upsert(registryIndex, pluginIndex) ==
    LET at == FindPlugin(registryIndex.Plugins, pluginIndex.ID) IN
    IF at # 0
    THEN [registryIndex EXCEPT !.Plugins[at] = EntryOf(pluginIndex)]
    ELSE [registryIndex EXCEPT !.Plugins = Append(@, EntryOf(pluginIndex))]

\* UpdateIndex: the merge and setRegistryIndex(registryIndex)
Idx_SetRegistry(q) ==
    /\ ix[q].pc = "setRegistry"
    /\ LET merged == Upsert(ix[q].registry, ix[q].pluginIndex) IN
       \E outcome \in StoreOutcomes :
         /\ store' = IF StoreWrites(outcome)
                     THEN Put(store, RegistryIndexKey, MarshalRegistryIndex(merged))
                     ELSE store
         /\ storeOps' = storeOps \cup {StoreOp(q, "put", RegistryIndexKey)}
         /\ ix' = [ix EXCEPT ![q] = [@ EXCEPT !.pc = "returned", !.registry = merged,
                                              !.err = StoreErr(outcome, RegistryIndexKey)]]
         /\ synced' = IF outcome = "ok" THEN synced \cup {ix[q].pluginIndex.ID} ELSE synced
    /\ UNCHANGED << tz, buildVars, cmdVars, clock, calls >>

\* publishCmd / packageCmd: Publish returned nil, so UpdateIndex is called.
Pub_Done ==
    /\ cpc = "upload"
    /\ upIdx > Len(releases)
    /\ cpc' = "index"
    /\ ix' = [ix EXCEPT ![1] = StartedCall(opts)]
    /\ calls' = calls + 1
    /\ UNCHANGED << tz, buildVars, cmd, cleanFlag, publishFlag, versionFlag, files, meta,
                    tarIdx, tarCalls, opts, releases, upIdx, uploads, cmdErr, store,
                    storeOps, clock, synced >>

\* publishCmd / packageCmd: UpdateIndex returned; its error, if any, is the
\* command's.
Cmd_IndexReturn ==
    /\ cpc = "index"
    /\ ix[1].pc = "returned"
    /\ CmdReturn(ix[1].err)
    /\ UNCHANGED << tz, buildVars, cmd, cleanFlag, publishFlag, versionFlag, files, meta,
                    tarIdx, tarCalls, opts, releases, upIdx, uploads, idxVars >>

(***************************************************************************)
(* Initial values of the parts a specification does not exercise.          *)
(***************************************************************************)
NoBuild ==
    /\ platforms = << >>
    /\ bpc = "idle"
    /\ outputDirs = {}
    /\ spawnIdx = 0
    /\ wg = 0
    /\ uiErrChan = << >>
    /\ uiPc = "none"
    /\ uiIdx = 0
    /\ uiErr = Nil
    /\ uiStarted = 0
    /\ binPc = << >>
    /\ binErr = << >>
    /\ binResults = << >>
    /\ fsOps = {}

\* No TarGz call is followed step by step.
NoTar == [pc |-> "idle"]

NoCommand ==
    /\ cmd = "none"
    /\ cpc = "none"
    /\ cleanFlag = FALSE
    /\ publishFlag = FALSE
    /\ versionFlag = ""
    /\ meta = EmptyMeta
    /\ tarIdx = 0
    /\ tarCalls = {}
    /\ opts = PublishOpts("", "", "", << >>)
    /\ releases = << >>
    /\ upIdx = 0
    /\ uploads = << >>
    /\ cmdErr = Nil

EmptyBucket ==
    /\ store = << >>
    /\ storeOps = {}
    /\ clock = 0
    /\ calls = 0
    /\ synced = {}
    /\ ix = [q \in Procs |-> IdleCall]

(***************************************************************************)
(* SpecBuild: one call of BuildAll with an arbitrary platform list.        *)
(***************************************************************************)
\* The platforms the lists are drawn from.
BuildPlatforms == { Targets[1], Targets[5] }

PlatformLists ==
    UNION { [1..n -> BuildPlatforms] : n \in 0..MaxPlatforms }

BuildInit ==
    /\ tz = NoTar
    /\ pluginDir = "plug"
    /\ outdir = "build"
    /\ platforms \in PlatformLists
    /\ bpc = "prepare"
    /\ outputDirs = {}
    /\ spawnIdx = 0
    /\ wg = 0
    /\ uiErrChan = << >>
    /\ uiPc = "none"
    /\ uiIdx = 0
    /\ uiErr = Nil
    /\ uiStarted = 0
    /\ binPc = [i \in DOMAIN platforms |-> "none"]
    /\ binErr = [i \in DOMAIN platforms |-> Nil]
    /\ binResults = << >>
    /\ fsOps = {}
    /\ dirs = {}
    /\ binFiles \in SUBSET { BinOutPath(StagingDir(pluginDir, outdir, t), t) :
                               t \in BuildPlatforms }
    /\ files = << >>
    /\ NoCommand
    /\ EmptyBucket

BuildNext == BuildStep

SpecBuild == BuildInit /\ [][BuildNext]_vars

(***************************************************************************)
(* Spec: one run of the package command or of the publish command.         *)
(***************************************************************************)
PluginId == "p"
Descriptors ==
    { Meta(PluginId, "0.9.0", "P", "icon", "d1"),     \* complete
      Meta(PluginId, "0.9.0", "", "icon", "d1"),      \* name missing
      Meta("", "0.9.0", "P", "icon", "d1"),           \* id missing
      Meta(PluginId, "", "P", "icon", "d1"),          \* version missing
      Meta(PluginId, "0.9.0", "P", "icon", "") }      \* description missing
    \cup { Lacking(Meta(PluginId, "0.9.0", "P", "icon", "d1"), f) : f \in RequiredRest }

TargetKeys == { Key(t) : t \in Range(SupportedTargets) }
PlatOfKey(k) == CHOOSE t \in Range(SupportedTargets) : Key(t) = k

\* Archives an earlier run left where the command will look for them.
StaleArchives(od, ks) == [pth \in { PublishPath(od, PlatOfKey(k)) : k \in ks } |->
                             ArchiveFile("stale", "")]

PackageInit ==
    /\ cmd = "package"
    /\ cpc = "pack"
    /\ pluginDir \in {".", "plug"}
    /\ outdir \in {"", "/", "build"}
    /\ cleanFlag \in BOOLEAN
    /\ publishFlag \in BOOLEAN
    /\ versionFlag = "1.2.0"
    /\ \E ks \in {{}, TargetKeys} :
         \/ files = StaleArchives(outdir, ks)
         \/ \E d \in Descriptors :
              files = Put(StaleArchives(outdir, ks), DescriptorPath(pluginDir), YamlFile(d))
    /\ opts = PublishOpts("", "", "", << >>)

\* The artifacts the publish command is pointed at.
ArtifactPath(k) == "art/" \o k \o ".tar.gz"

PublishInit ==
    /\ cmd = "publish"
    /\ cpc = "publish"
    /\ pluginDir = "."
    /\ outdir = "build"
    /\ cleanFlag = FALSE
    /\ publishFlag = FALSE
    /\ versionFlag = "1.2.0"
    /\ \E given \in SUBSET TargetKeys, present \in SUBSET TargetKeys :
         /\ opts = PublishOpts(PluginId, versionFlag, "plugin.yaml",
                               [k \in given |-> ArtifactPath(k)])
         /\ files = Put([pth \in { ArtifactPath(k) : k \in present } |->
                            ArchiveFile("stale", "")],
                        "plugin.yaml", YamlFile(Meta(PluginId, "1.2.0", "P", "icon", "d1")))

Init ==
    /\ tz = NoTar
    /\ PackageInit \/ PublishInit
    /\ NoBuild
    /\ dirs = {}
    /\ binFiles = {}
    /\ meta = EmptyMeta
    /\ tarIdx = 0
    /\ tarCalls = {}
    /\ releases = << >>
    /\ upIdx = 0
    /\ uploads = << >>
    /\ cmdErr = Nil
    /\ EmptyBucket

Next ==
    \/ Pack_Start
    \/ BuildAll_Prepare
    \/ BuildAll_SpawnUI
    \/ BuildAll_SpawnBin
    \/ BuildAll_SpawnEnd
    \/ UI_Build
    \/ UI_Copy
    \/ UI_CopyEnd
    \/ UI_Send
    \/ \E i \in DOMAIN platforms : Bin_Run(i)
    \/ BuildAll_Wait
    \/ BuildAll_Return
    \/ Pack_Tar
    \/ Pack_Return
    \/ Pub_Start
    \/ Pub_Upload
    \/ Pub_Done
    \/ Idx_GetPlugin(1)
    \/ Idx_SetPlugin(1)
    \/ Idx_GetRegistry(1)
    \/ Idx_SetRegistry(1)
    \/ Cmd_IndexReturn

Spec == Init /\ [][Next]_vars

(***************************************************************************)
(* SpecIndex: publishers run UpdateIndex one call after the other, for     *)
(* several plugins, versions and descriptors, against one bucket.          *)
(***************************************************************************)
\* How many UpdateIndex calls a behaviour makes.
MaxSyncs == 2

PluginIds == {"p", "q"}
VersionIds == {"1.2.0", "1.3.0"}
Descriptions == {"d1", "d2"}

\* The path sets a call is given: none, the first target only, all targets.
PathChoices == { {}, {Key(SupportedTargets[1])}, TargetKeys }

\* A registry index somebody wrote by hand: one entry, not marked official.
HandWrittenRegistry ==
    RegistryIndex(<< RegistryEntry("q", "Q", "", "old", FALSE, ZeroVersionInfo) >>)

IndexInit ==
    /\ tz = NoTar
    /\ pluginDir = "."
    /\ outdir = "build"
    /\ NoBuild
    /\ dirs = {}
    /\ binFiles = {}
    /\ NoCommand
    /\ files = [pth \in { ArtifactPath(k) : k \in TargetKeys } |-> ArchiveFile("stale", "")]
    /\ store \in { << >>,
                   Put(<< >>, RegistryIndexKey, MarshalRegistryIndex(HandWrittenRegistry)) }
    /\ storeOps = {}
    /\ clock = 0
    /\ calls = 0
    /\ synced = {}
    /\ ix = [q \in Procs |-> IdleCall]

\* A publisher starts UpdateIndex for one of plugins x versions, with a
\* descriptor (description from ds) at mpath and the artifacts of one of
\* choices; at most limit calls are made.
Idx_CallWith(q, mpath, plugins, versions, ds, choices, limit) ==
    /\ ix[q].pc \in {"idle", "returned", "crashed"}
    /\ calls < limit
    /\ \E plugin \in plugins, version \in versions, d \in ds, given \in choices :
         /\ files' = Put(files, mpath,
                         YamlFile(Meta(plugin, version, plugin, "icon", d)))
         /\ ix' = [ix EXCEPT ![q] =
                      StartedCall(PublishOpts(plugin, version, mpath,
                                              [k \in given |-> ArtifactPath(k)]))]
    /\ calls' = calls + 1
    /\ UNCHANGED << tz, buildVars, cmd, cpc, cleanFlag, publishFlag, versionFlag, meta,
                    tarIdx, tarCalls, opts, releases, upIdx, uploads, cmdErr, store,
                    storeOps, clock, synced >>

\* A publisher starts UpdateIndex; the descriptor on disk is the one of the
\* plugin being published.
Idx_Call(q) ==
    Idx_CallWith(q, "plugin.yaml", PluginIds, VersionIds, Descriptions, PathChoices,
                 MaxSyncs)

IndexNext ==
    \/ Idx_Call(1)
    \/ Idx_GetPlugin(1)
    \/ Idx_SetPlugin(1)
    \/ Idx_GetRegistry(1)
    \/ Idx_SetRegistry(1)

SpecIndex == IndexInit /\ [][IndexNext]_vars

(***************************************************************************)
(* SpecRace: two publishers, each on its own machine with its own          *)
(* descriptor, run UpdateIndex against the same bucket; their steps        *)
(* interleave freely.                                                      *)
(***************************************************************************)
\* How many UpdateIndex calls the two publishers make together.
MaxRaceSyncs == 2

\* What publisher q publishes: its version and the path of its descriptor.
RaceVersion(q) == IF q = 1 THEN "1.2.0" ELSE "1.3.0"
RaceDescriptor(q) == IF q = 1 THEN "plugin.yaml" ELSE "other/plugin.yaml"

RaceInit ==
    /\ tz = NoTar
    /\ pluginDir = "."
    /\ outdir = "build"
    /\ NoBuild
    /\ dirs = {}
    /\ binFiles = {}
    /\ NoCommand
    /\ files = [pth \in { ArtifactPath(k) : k \in TargetKeys } |-> ArchiveFile("stale", "")]
    /\ store \in { << >>,
                   Put(<< >>, RegistryIndexKey, MarshalRegistryIndex(HandWrittenRegistry)) }
    /\ storeOps = {}
    /\ clock = 0
    /\ calls = 0
    /\ synced = {}
    /\ ix = [q \in Procs |-> IdleCall]

Race_Call(q) ==
    Idx_CallWith(q, RaceDescriptor(q), PluginIds, {RaceVersion(q)}, {"d1"},
                 {{Key(SupportedTargets[1])}}, MaxRaceSyncs)

RaceNext ==
    \E q \in Procs :
        \/ Race_Call(q)
        \/ Idx_GetPlugin(q)
        \/ Idx_SetPlugin(q)
        \/ Idx_GetRegistry(q)
        \/ Idx_SetRegistry(q)

SpecRace == RaceInit /\ [][RaceNext]_vars

(***************************************************************************)
(* SpecFault: one publisher runs UpdateIndex for plugin "p" with artifacts *)
(* that may fail to open, to be read or to be stat'ed, against a bucket    *)
(* that is empty or holds, under the key of "p", a catalog carrying        *)
(* another plugin id.                                                      *)
(***************************************************************************)
\* How many UpdateIndex calls a behaviour makes.
MaxFaultSyncs == 1

IoKinds == {"ok", "noopen", "readerr", "nostat"}

\* A catalog stored under the key of plugin "p" whose id is not "p".
RenamedCatalog ==
    PluginIndex(RegistryEntry("x", "X", "", "old", FALSE,
                              VersionInfo(EmptyMeta, "0.9.0", << >>, ZeroTime, ZeroTime)),
                << VersionInfo(EmptyMeta, "0.9.0", << >>, ZeroTime, ZeroTime) >>)

FaultInit ==
    /\ tz = NoTar
    /\ pluginDir = "."
    /\ outdir = "build"
    /\ NoBuild
    /\ dirs = {}
    /\ binFiles = {}
    /\ NoCommand
    /\ \E io \in [TargetKeys -> IoKinds] :
          files = [pth \in { ArtifactPath(k) : k \in TargetKeys } |->
                      Faulty(ArchiveFile("stale", ""),
                             io[CHOOSE k \in TargetKeys : ArtifactPath(k) = pth])]
    /\ store \in { << >>,
                   Put(<< >>, PluginIndexKey("p"), MarshalPluginIndex(RenamedCatalog)) }
    /\ storeOps = {}
    /\ clock = 0
    /\ calls = 0
    /\ synced = {}
    /\ ix = [q \in Procs |-> IdleCall]

Fault_Call(q) ==
    Idx_CallWith(q, "plugin.yaml", {"p"}, {"1.2.0"}, {"d1"}, PathChoices, MaxFaultSyncs)

FaultNext ==
    \/ Fault_Call(1)
    \/ Idx_GetPlugin(1)
    \/ Idx_SetPlugin(1)
    \/ Idx_GetRegistry(1)
    \/ Idx_SetRegistry(1)

SpecFault == FaultInit /\ [][FaultNext]_vars

(***************************************************************************)
(* SpecRepublish: one run of the publish command against a bucket that is  *)
(* empty or already holds an earlier release of the plugin.                *)
(***************************************************************************)
\* The catalog an earlier, successful publish of version 1.1.0 stored.
PriorCatalog ==
    updateIndex(MinimalPluginIndex(PluginId),
                << Release(PluginId, "1.1.0", SupportedTargets[1],
                           ArtifactPath(Key(SupportedTargets[1]))) >>,
                Meta(PluginId, "1.1.0", "P", "icon", "d0"),
                ZeroTime, ZeroTime,
                Put(<< >>, ArtifactPath(Key(SupportedTargets[1])), ArchiveFile("stale", "")))

\* The bucket after that publish: the plugin catalog and the registry catalog.
PriorBucket ==
    Put(Put(<< >>, PluginIndexKey(PluginId), MarshalPluginIndex(PriorCatalog)),
        RegistryIndexKey,
        MarshalRegistryIndex(Upsert(RegistryIndex(<< >>), PriorCatalog)))

RepublishInit ==
    /\ tz = NoTar
    /\ PublishInit
    /\ NoBuild
    /\ dirs = {}
    /\ binFiles = {}
    /\ meta = EmptyMeta
    /\ tarIdx = 0
    /\ tarCalls = {}
    /\ releases = << >>
    /\ upIdx = 0
    /\ uploads = << >>
    /\ cmdErr = Nil
    /\ store \in { << >>, PriorBucket }
    /\ storeOps = {}
    /\ clock = 0
    /\ calls = 0
    /\ synced = {}
    /\ ix = [q \in Procs |-> IdleCall]

RepublishNext ==
    \/ Pub_Start
    \/ Pub_Upload
    \/ Pub_Done
    \/ Idx_GetPlugin(1)
    \/ Idx_SetPlugin(1)
    \/ Idx_GetRegistry(1)
    \/ Idx_SetRegistry(1)
    \/ Cmd_IndexReturn

SpecRepublish == RepublishInit /\ [][RepublishNext]_vars

(***************************************************************************)
(* SpecTar: one TarGz(sourceDir, outPath) call followed statement by       *)
(* statement, on a staging directory with files, nested directories and    *)
(* empty directories.  The tar writer hands its blocks to the gzip writer, *)
(* which buffers them and writes compressed blocks to the MultiWriter over *)
(* the output file and the hasher.                                         *)
(***************************************************************************)
\* The longest file content.
MaxFileLen == 2

\* sourceDir, as path elements.
SrcDir == << "build", "darwin_arm64" >>

\* What may be below sourceDir, in the lexical order filepath.Walk visits it.
StagePaths ==
    << << "assets" >>, << "assets", "index.js" >>, << "bin" >>, << "bin", "plugin" >>,
       << "plugin.yaml" >> >>

StageDirs == { << "assets" >>, << "bin" >> }

Contents == { [i \in 1..n |-> i] : n \in 0..MaxFileLen }

\* A directory entry as Walk reports it: path, kind, content.
Node(path, kind, data) == [path |-> path, kind |-> kind, data |-> data]
RootNode == Node(SrcDir, "dir", << >>)
MissingRoot == Node(SrcDir, "missing", << >>)

AllNodes ==
    { Node(SrcDir \o d, "dir", << >>) : d \in StageDirs }
      \cup { Node(SrcDir \o f, "file", c) :
                f \in Range(StagePaths) \ StageDirs, c \in Contents }

\* The directory trees: one node per path, a file only in a directory that
\* exists; the empty set stands for a sourceDir that does not exist.
Trees ==
    {{}} \cup
    { {RootNode} \cup t : t \in
        { u \in SUBSET AllNodes :
            /\ \A m, n \in u : m.path = n.path => m = n
            /\ \A n \in u : Len(n.path) > Len(SrcDir) + 1 =>
                  \E d \in u : d.kind = "dir" /\ d.path = SubSeq(n.path, 1, Len(n.path) - 1) } }

\* filepath.Walk(sourceDir, fn): the calls of fn, in order.
WalkOrder(tree) ==
    IF tree = {} THEN << MissingRoot >>
    ELSE LET present == SelectSeq(StagePaths,
                                  LAMBDA r : \E n \in tree : n.path = SrcDir \o r)
         IN  << RootNode >> \o
             [i \in DOMAIN present |-> CHOOSE n \in tree : n.path = SrcDir \o present[i]]

\* filepath.Rel(sourceDir, path), and a path written with slashes.
RelKeepsBase(base, path) == path
Rel(base, path) == SubSeq(path, Len(base) + 1, Len(path))

RECURSIVE Slashed(_)
Slashed(p) ==
    IF Len(p) = 0 THEN "."
    ELSE IF Len(p) = 1 THEN p[1]
    ELSE p[1] \o "/" \o Slashed(Tail(p))

\* fn: if err != nil || info.IsDir() { return err }
WalkSkipsNothing(n) == FALSE
WalkSkips(n) == n.kind = "dir"

\* What the tar writer emits: a header block per entry, the content blocks
\* of a non-empty file, the end-of-archive blocks on Close.
TarBlock(t, name, size, data) == [t |-> t, name |-> name, size |-> size, data |-> data]
TarHeader(n) ==
    TarBlock(IF n.kind = "dir" THEN "dirhdr" ELSE "hdr",
             Slashed(Rel(SrcDir, n.path)), Len(n.data), << >>)
TarData(n) == TarBlock("dat", "", 0, n.data)
TarEnd == TarBlock("eof", "", 0, << >>)
NoBlock == TarBlock("", "", 0, << >>)

TarEntry(n) ==
    IF Len(n.data) > 0 THEN << TarHeader(n), TarData(n) >> ELSE << TarHeader(n) >>

\* What the gzip writer emits: its header before the first data, compressed
\* blocks, the trailer (checksum and length of the uncompressed data) on Close.
GzChunk(z, e, n) == [z |-> z, e |-> e, n |-> n]
GzHeader == GzChunk("hdr", NoBlock, 0)
GzTrailer(n) == GzChunk("trl", NoBlock, n)
Deflate(blocks) == [i \in DOMAIN blocks |-> GzChunk("blk", blocks[i], 0)]

\* The statements of TarGz after os.Create, in order.
TarGzStepsCleanupEarly == << "create", "walk", "closeTw", "closeGz", "cleanup", "sidecar" >>
TarGzStepsDigestEarly == << "create", "walk", "closeTw", "sidecar", "closeGz", "cleanup" >>
TarGzSteps == << "create", "walk", "closeTw", "closeGz", "sidecar", "cleanup" >>

StepAfter(st) ==
    LET i == CHOOSE j \in DOMAIN TarGzSteps : TarGzSteps[j] = st
    IN  IF i = Len(TarGzSteps) THEN "return" ELSE TarGzSteps[i + 1]

\* The locals of a TarGz call on tree, and the files it works on.
TarCallOn(tree) ==
    [pc |-> TarGzSteps[1], tree |-> tree, tree0 |-> tree, todo |-> WalkOrder(tree),
     outExists |-> FALSE, out |-> << >>, hashed |-> << >>,
     gzHeader |-> FALSE, pending |-> << >>, count |-> 0,
     twClosed |-> FALSE, gzClosed |-> FALSE, sidecar |-> << >>, err |-> Nil]

\* io.MultiWriter(outFile, hasher).Write(chunk): the file is written first;
\* the hasher gets the chunk only when the file took all of it.
MultiWrite(t, chunk, ok) ==
    IF ok THEN [t EXCEPT !.out = @ \o chunk, !.hashed = @ \o chunk]
    ELSE [t EXCEPT !.out = @ \o SubSeq(chunk, 1, Len(chunk) - 1)]

\* gz.Write(blocks): what reaches the MultiWriter now (the header at the first
\* write, and the buffered blocks when the compressor flushes).
GzEmits(t, blocks, flush) ==
    (IF t.gzHeader THEN << >> ELSE << GzHeader >>)
        \o (IF flush THEN Deflate(t.pending \o blocks) ELSE << >>)

GzWrite(t, blocks, flush, ok) ==
    MultiWrite([t EXCEPT !.gzHeader = TRUE,
                         !.pending = IF flush THEN << >> ELSE @ \o blocks,
                         !.count = @ + Len(blocks)],
               GzEmits(t, blocks, flush), ok)

\* gz.Close(): everything buffered, then the trailer.
GzClose(t, ok) ==
    MultiWrite([t EXCEPT !.gzHeader = TRUE, !.pending = << >>, !.gzClosed = TRUE],
               GzEmits(t, << >>, TRUE) \o << GzTrailer(t.count) >>, ok)

\* The deferred tw.Close(), gz.Close(), outFile.Close() at a return: writers
\* closed before do nothing, as does a gzip writer that met a write error
\* (~ok); others write what they hold.
Deferred(t, ok) ==
    IF ~t.outExists \/ t.gzClosed \/ ~ok THEN t
    ELSE LET tw == IF t.twClosed THEN t
                   ELSE [t EXCEPT !.pending = @ \o << TarEnd >>, !.count = @ + 1,
                                  !.twClosed = TRUE]
         IN  GzClose(tw, TRUE)

\* return "", "", err
TarFail(t, stage, ok) ==
    [Deferred(t, ok) EXCEPT !.pc = "returned", !.err = Error("TarGz", stage)]

\* outFile, err := os.Create(outPath)
Tz_Create ==
    /\ tz.pc = "create"
    /\ \E ok \in BOOLEAN :
         tz' = IF ok
               THEN [tz EXCEPT !.outExists = TRUE, !.out = << >>,
                               !.pc = StepAfter("create")]
               ELSE [tz EXCEPT !.pc = "returned", !.err = Error("TarGz", "create")]
    /\ UNCHANGED << buildVars, cmdVars, idxVars >>

\* What one call of the walk function can come to: Walk reports an error for
\* the entry ("lstat"), or writing the header, opening the file or copying
\* it fails, or all goes well.
WalkOutcomes(n) ==
    IF n.kind = "missing" THEN {"lstat"}
    ELSE IF WalkSkips(n) THEN {"ok", "lstat"}
    ELSE {"ok", "lstat", "header", "open", "copy"}

\* filepath.Walk: one call of the walk function.
Tz_Walk ==
    /\ tz.pc = "walk"
    /\ tz.todo # << >>
    /\ LET n == Head(tz.todo) IN
       \E res \in WalkOutcomes(n), flush \in BOOLEAN :
         tz' = CASE res = "ok" /\ WalkSkips(n) ->
                      [tz EXCEPT !.todo = Tail(@)]
                 [] res = "ok" /\ ~WalkSkips(n) ->
                      [GzWrite(tz, TarEntry(n), flush, TRUE) EXCEPT !.todo = Tail(@)]
                 [] res = "lstat" ->
                      TarFail(tz, "walk", flush)
                 [] res = "header" ->
                      TarFail(GzWrite(tz, << TarHeader(n) >>, TRUE, FALSE), "walk", FALSE)
                 [] res = "open" ->
                      TarFail(GzWrite(tz, << TarHeader(n) >>, flush, TRUE), "walk", TRUE)
                 [] res = "copy" ->
                      TarFail(GzWrite(tz, TarEntry(n), TRUE, FALSE), "walk", FALSE)
    /\ UNCHANGED << buildVars, cmdVars, idxVars >>

\* filepath.Walk returned nil.
Tz_WalkEnd ==
    /\ tz.pc = "walk"
    /\ tz.todo = << >>
    /\ tz' = [tz EXCEPT !.pc = StepAfter("walk")]
    /\ UNCHANGED << buildVars, cmdVars, idxVars >>

\* if err := tw.Close(); err != nil { return }
Tz_CloseTw ==
    /\ tz.pc = "closeTw"
    /\ \E ok \in BOOLEAN, flush \in BOOLEAN :
         tz' = IF ok
               THEN [GzWrite(tz, << TarEnd >>, flush, TRUE) EXCEPT
                        !.twClosed = TRUE, !.pc = StepAfter("closeTw")]
               ELSE TarFail(GzWrite(tz, << TarEnd >>, TRUE, FALSE), "closeTw", FALSE)
    /\ UNCHANGED << buildVars, cmdVars, idxVars >>

\* if err := gz.Close(); err != nil { return }
Tz_CloseGz ==
    /\ tz.pc = "closeGz"
    /\ \E ok \in BOOLEAN :
         tz' = IF ok
               THEN [GzClose(tz, TRUE) EXCEPT !.pc = StepAfter("closeGz")]
               ELSE TarFail(GzClose(tz, FALSE), "closeGz", FALSE)
    /\ UNCHANGED << buildVars, cmdVars, idxVars >>

\* checksum := hex.EncodeToString(hasher.Sum(nil)); os.WriteFile(shaFile, ...)
Tz_Sidecar ==
    /\ tz.pc = "sidecar"
    /\ \E ok \in BOOLEAN, dok \in BOOLEAN :
         tz' = IF ok
               THEN [tz EXCEPT !.sidecar = << Sha256Hex(tz.hashed) >>,
                               !.pc = StepAfter("sidecar")]
               ELSE TarFail(tz, "sidecar", dok)
    /\ UNCHANGED << buildVars, cmdVars, idxVars >>

\* os.RemoveAll(sourceDir); on failure some of the tree may be gone.
Tz_Cleanup ==
    /\ tz.pc = "cleanup"
    /\ \E ok \in BOOLEAN, dok \in BOOLEAN :
         IF ok
         THEN tz' = [tz EXCEPT !.tree = {}, !.pc = StepAfter("cleanup")]
         ELSE \E rest \in {tz.tree, tz.tree \cap {RootNode}} :
                 tz' = TarFail([tz EXCEPT !.tree = rest], "cleanup", dok)
    /\ UNCHANGED << buildVars, cmdVars, idxVars >>

\* return outFile.Name(), shaFile, nil
Tz_Return ==
    /\ tz.pc = "return"
    /\ \E dok \in BOOLEAN :
         tz' = [Deferred(tz, dok) EXCEPT !.pc = "returned"]
    /\ UNCHANGED << buildVars, cmdVars, idxVars >>

TarInit ==
    /\ tz \in { TarCallOn(t) : t \in Trees }
    /\ pluginDir = "."
    /\ outdir = "build"
    /\ NoBuild
    /\ dirs = {}
    /\ binFiles = {}
    /\ files = << >>
    /\ NoCommand
    /\ EmptyBucket

TarNext ==
    \/ Tz_Create
    \/ Tz_Walk
    \/ Tz_WalkEnd
    \/ Tz_CloseTw
    \/ Tz_CloseGz
    \/ Tz_Sidecar
    \/ Tz_Cleanup
    \/ Tz_Return

SpecTar == TarInit /\ [][TarNext]_vars

(***************************************************************************)
(* Properties.                                                             *)
(***************************************************************************)
\* The error BuildAll puts on a result when the UI build returned uiErr.
UIFailure == Error("UI build failed", uiErr.kind)

\* C1: when BuildAll returns, binResults holds exactly one BuildResult per
\* platform of the list it was given, at that platform's position and with
\* Platform equal to it, whatever the builds did and however the tasks
\* interleaved.
C1_OneResultPerPlatform ==
    bpc = "done" =>
        /\ Len(binResults) = Len(platforms)
        /\ \A i \in DOMAIN platforms : binResults[i].Platform = platforms[i]

C1_Witness ==
    /\ bpc = "done"
    /\ Len(platforms) = 2
    /\ platforms[1] # platforms[2]
    /\ binResults[1].Err # Nil
    /\ binResults[2].Err = Nil

\* C2 as stated: if the shared UI build fails, every returned BuildResult
\* carries the UI failure as its cause, also the result of a platform whose
\* own binary build failed.
C2_EveryResultCarriesUIFailure ==
    (bpc = "done" /\ uiErr # Nil) =>
        \A i \in DOMAIN binResults : binResults[i].Err = UIFailure

\* C2 amended: if the shared UI build fails, every returned BuildResult has a
\* non-nil Err; the result of a platform whose own binary build succeeded
\* carries the UI failure as its cause, the result of a platform whose own
\* binary build failed keeps that build's error.
C2_UIFailureFailsEveryResult ==
    (bpc = "done" /\ uiErr # Nil) =>
        \A i \in DOMAIN binResults :
            /\ binResults[i].Err # Nil
            /\ binResults[i].Err = IF binErr[i] = Nil THEN UIFailure ELSE binErr[i]

C2_Witness ==
    /\ bpc = "done"
    /\ uiErr # Nil
    /\ \E i, j \in DOMAIN binResults :
        /\ binErr[i] = Nil
        /\ binErr[j] # Nil
        /\ binResults[i].Err = UIFailure

\* C3: when the shared UI build succeeds, the Err of each platform's
\* BuildResult is what that platform's own binary build returned: a failure
\* of platform A leaves the result of a platform B that built without error.
C3_BinaryFailuresIsolated ==
    (bpc = "done" /\ uiErr = Nil) =>
        \A i \in DOMAIN binResults : binResults[i].Err = binErr[i]

C3_Witness ==
    /\ bpc = "done"
    /\ uiErr = Nil
    /\ \E a, b \in DOMAIN binResults :
        /\ binErr[a] # Nil
        /\ binResults[a].Err # Nil
        /\ binResults[b].Err = Nil

\* The tasks of BuildAll that were started and have not finished.
RunningBins == { i \in DOMAIN binPc : binPc[i] = "running" }
UIRunning == uiPc \in {"build", "copy", "send"}

\* C4: one call of BuildAll starts one UI build and one binary task per
\* platform, the wait group counts the tasks still running, and BuildAll
\* passes its wg.Wait() (reads the UI error, rewrites the results, returns)
\* only when all N+1 tasks have finished.
C4_JoinsAllTasks ==
    /\ uiStarted <= 1
    /\ bpc \in {"wait", "recv", "done"} =>
          /\ uiStarted = 1
          /\ \A i \in DOMAIN platforms : binPc[i] # "none"
          /\ wg = Cardinality(RunningBins) + (IF UIRunning THEN 1 ELSE 0)
    /\ bpc \in {"recv", "done"} =>
          /\ uiPc = "exited"
          /\ \A i \in DOMAIN platforms : binPc[i] = "exited"

C4_Witness ==
    /\ bpc = "done"
    /\ Len(platforms) = 2
    /\ uiPc = "exited"
    /\ \A i \in DOMAIN platforms : binPc[i] = "exited"

\* A platform of the list whose MkdirAll failed in step 1.
MkdirFailed(t) ==
    /\ bpc \notin {"idle", "prepare"}
    /\ t \in Range(platforms)
    /\ ~\E e \in outputDirs : e[1] = Key(t)

\* C5 as stated: a target whose staging directory could not be created is
\* left out of everything that follows: apart from the failed MkdirAll no
\* file-system operation (descriptor copy, binary build, UI asset copy) is
\* attempted for it, and TarGz is never called for it.
C5_FailedTargetExcluded ==
    \A t \in Range(platforms) :
        MkdirFailed(t) =>
            /\ \A op \in fsOps : op.plat = t => (op.task = MainTask /\ op.sub = "bin")
            /\ \A c \in tarCalls : c.Platform # t

\* The step in which the UI task copies the assets into the staging
\* directory of platforms[uiIdx].
UICopies ==
    /\ uiPc = "copy"
    /\ uiIdx <= Len(platforms)
    /\ uiIdx' = uiIdx + 1

C7_IndexOnlyAfterAllUploads ==
    (calls > 0 \/ storeOps # {} \/ cpc = "index") =>
        /\ Len(uploads) = Len(ToReleases(opts))
        /\ \A i \in DOMAIN uploads :
              /\ uploads[i].release = ToReleases(opts)[i]
              /\ uploads[i].err = Nil

C7_Witness ==
    /\ cmd = "package"
    /\ calls = 1
    /\ Len(uploads) = 2
    /\ \E op \in storeOps : op.op = "put" /\ op.key = RegistryIndexKey

\* C8 as stated: in a package run with --publish, Upload is called for a
\* release only if this run's build of that platform succeeded and its TarGz
\* call returned success; in particular nothing is sent to the store for a
\* platform whose build failed.
C8_UploadOnlyArchived ==
    cmd = "package" =>
        \A i \in DOMAIN uploads :
            \E c \in tarCalls :
                /\ Key(c.Platform) = OSArch(uploads[i].release)
                /\ c.Err = Nil
                /\ c.failAt = "none"

\* The version records stored for a plugin (the versions list and
\* latest_version), and the created stamps recorded for one version.
StoredRecords(plugin) ==
    IF PluginIndexKey(plugin) \in DOMAIN store
    THEN Range(store[PluginIndexKey(plugin)].versions)
            \cup {store[PluginIndexKey(plugin)].latest_version}
    ELSE {}

CreatedStamps(plugin, version) ==
    { r.created : r \in { x \in StoredRecords(plugin) : x.version = version } }

UpdatedStamps(plugin, version) ==
    { r.updated : r \in { x \in StoredRecords(plugin) : x.version = version } }

\* C9 as stated: once a record of version v is stored for a plugin, the
\* created stamp recorded for v never changes, and a re-publish of v moves
\* its updated stamp forward.
C9_CreatedImmutable ==
    [][\A plugin \in PluginIds, version \in VersionIds :
          CreatedStamps(plugin, version) # {} =>
              /\ (CreatedStamps(plugin, version))' = CreatedStamps(plugin, version)
              /\ \A old \in UpdatedStamps(plugin, version),
                    new \in (UpdatedStamps(plugin, version))' : new >= old]_vars

\* The registry catalog as stored.
StoredRegistry ==
    IF RegistryIndexKey \in DOMAIN store THEN store[RegistryIndexKey].plugins ELSE << >>

EntriesOf(plugins, id) == { i \in DOMAIN plugins : plugins[i].id = id }

C10_OneEntryPerPlugin ==
    /\ \A i, j \in DOMAIN StoredRegistry :
          StoredRegistry[i].id = StoredRegistry[j].id => i = j
    /\ \A plugin \in synced :
          /\ Cardinality(EntriesOf(StoredRegistry, plugin)) = 1
          /\ \A i \in EntriesOf(StoredRegistry, plugin) : StoredRegistry[i].official

C10_UpsertInPlace ==
    \A q \in Procs :
        (ix[q].pc = "setRegistry" /\ store' # store) =>
            LET id == ix[q].pluginIndex.ID
                entry == MarshalEntry(EntryOf(ix[q].pluginIndex))
                old == StoredRegistry
                new == StoredRegistry'
            IN  IF EntriesOf(old, id) # {}
                THEN /\ Len(new) = Len(old)
                     /\ \A i \in DOMAIN old :
                           new[i] = IF old[i].id = id THEN entry ELSE old[i]
                     /\ entry.description = ix[q].metadata.Description
                ELSE new = Append(old, entry)

\* C10: with UpdateIndex calls run one after the other, from an absent or
\* id-unique registry catalog, the stored registry catalog never lists an id
\* twice, lists every plugin that was synced exactly once and as official,
\* and a sync of a plugin already listed replaces its entry in place (new
\* description and latest version, same length), a sync of a new plugin
\* appends one entry.
C10_RegistryUpsert == []C10_OneEntryPerPlugin /\ [][C10_UpsertInPlace]_vars

C10_Witness ==
    /\ calls = 2
    /\ ix[1].pc = "returned"
    /\ ix[1].err = Nil
    /\ Len(StoredRegistry) = 1
    /\ StoredRegistry[1].id = "p"
    /\ StoredRegistry[1].description = "d2"
    /\ StoredRegistry[1].official
    /\ Len(store[PluginIndexKey("p")].versions) = 2
    /\ store[PluginIndexKey("p")].versions[1].metadata.Description = "d1"

\* The plugin catalog as stored, if any.
HasCatalog(st, plugin) == PluginIndexKey(plugin) \in DOMAIN st
Catalog(st, plugin) == st[PluginIndexKey(plugin)]

\* C11: the UpdateIndex call that stores the first catalog of plugin p, for
\* version v with k platform artifacts, stores a catalog with id p and
\* exactly one version record: its version is v, its architectures map has
\* exactly the k keys "<os>_<arch>" of the artifacts given, and
\* latest_version equals it.
C11_FirstPublish ==
    [][\A plugin \in PluginIds :
          (~HasCatalog(store, plugin) /\ HasCatalog(store', plugin)) =>
              LET doc == Catalog(store', plugin)
                  o == ix[1].opts
              IN  /\ o.Plugin = plugin
                  /\ doc.id = plugin
                  /\ Len(doc.versions) = 1
                  /\ doc.versions[1].version = o.Version
                  /\ DOMAIN doc.versions[1].architectures = DOMAIN o.Paths
                  /\ DOMAIN o.Paths \subseteq TargetKeys
                  /\ doc.latest_version = doc.versions[1]]_vars

C11_Witness ==
    /\ calls = 1
    /\ ix[1].pc = "returned"
    /\ ix[1].err = Nil
    /\ HasCatalog(store, "p")
    /\ Len(Catalog(store, "p").versions) = 1
    /\ Catalog(store, "p").versions[1].version = "1.2.0"
    /\ Cardinality(DOMAIN Catalog(store, "p").versions[1].architectures) = 2
    /\ Catalog(store, "p").latest_version = Catalog(store, "p").versions[1]

C12_LatestIsLast ==
    \A plugin \in PluginIds :
        HasCatalog(store, plugin) =>
            LET doc == Catalog(store, plugin) IN
            /\ Len(doc.versions) >= 1
            /\ doc.latest_version = doc.versions[Len(doc.versions)]

C12_Appends ==
    \A plugin \in PluginIds :
        (HasCatalog(store, plugin) /\ Catalog(store', plugin) # Catalog(store, plugin)) =>
            LET old == Catalog(store, plugin).versions
                new == Catalog(store', plugin).versions
            IN  /\ Len(new) = Len(old) + 1
                /\ SubSeq(new, 1, Len(old)) = old
                /\ Catalog(store', plugin).latest_version = new[Len(new)]

\* C12: the versions list of a stored plugin catalog is append-only: an
\* UpdateIndex call that rewrites the catalog keeps the records stored before
\* unchanged and in order and appends exactly one record, which is also the
\* new latest_version; so latest_version always equals the last record.
C12_AppendOnly == []C12_LatestIsLast /\ [][C12_Appends]_vars

C12_Witness ==
    /\ calls = 2
    /\ HasCatalog(store, "p")
    /\ Len(Catalog(store, "p").versions) = 2
    /\ Catalog(store, "p").versions[1].version = "1.3.0"
    /\ Catalog(store, "p").versions[2].version = "1.2.0"
    /\ Catalog(store, "p").latest_version = Catalog(store, "p").versions[2]

\* What an overwrite by publisher q stores: its fetched copy with its own
\* record or entry merged in, whatever the bucket holds at that moment.
C13_PluginOverwrite(q) ==
    (ix[q].pc = "setPlugin" /\ ix'[q].pc = "getRegistry") =>
        /\ HasCatalog(store', ix[q].index.ID)
        /\ LET doc == Catalog(store', ix[q].index.ID)
               fetched == ix[q].index.Versions
           IN  /\ Len(doc.versions) = Len(fetched) + 1
               /\ \A i \in DOMAIN fetched : doc.versions[i] = MarshalVersion(fetched[i])
               /\ doc.versions[Len(doc.versions)].version = ix[q].opts.Version

C13_RegistryOverwrite(q) ==
    (ix[q].pc = "setRegistry" /\ ix'[q].pc = "returned" /\ ix'[q].err = Nil) =>
        /\ RegistryIndexKey \in DOMAIN store'
        /\ { e.id : e \in Range(store'[RegistryIndexKey].plugins) } =
              { e.ID : e \in Range(ix[q].registry.Plugins) } \cup {ix[q].pluginIndex.ID}

\* Both publishers returned success.
BothSynced == \A q \in Procs : ix[q].pc = "returned" /\ ix[q].err = Nil

\* The stored catalog of the plugin both published lacks the record of one.
LostVersion ==
    /\ BothSynced
    /\ ix[1].opts.Plugin = ix[2].opts.Plugin
    /\ \E q \in Procs :
          ~\E r \in Range(Catalog(store, ix[q].opts.Plugin).versions) :
              r.version = ix[q].opts.Version

\* The stored registry lacks the entry of one of two different plugins.
LostEntry ==
    /\ BothSynced
    /\ ix[1].opts.Plugin # ix[2].opts.Plugin
    /\ \E q \in Procs :
          ~\E e \in Range(store[RegistryIndexKey].plugins) : e.id = ix[q].opts.Plugin

\* C13: UpdateIndex overwrites a catalog with its own fetched copy plus its
\* own record or entry, without looking at what the bucket holds at the time
\* of the write; so two runs whose fetch and overwrite steps interleave can
\* both return success while the stored catalog lacks the record or the
\* entry of one of them (C13_Witness).
C13_LastWriterWins ==
    [][\A q \in Procs : C13_PluginOverwrite(q) /\ C13_RegistryOverwrite(q)]_vars

C13_Witness == LostVersion \/ LostEntry

\* A fetch step of publisher q: from pc at, going on at next.
C14_Fetch(q, at, next) ==
    (ix[q].pc = at /\ ix'[q].pc # at) =>
        /\ store' = store
        /\ IF ix'[q].err # Nil
           THEN ix'[q].pc = "returned"
           ELSE ix'[q].pc = next

\* An object that is not there is no error: the sync goes on with a
\* synthesized empty catalog.
C14_NotFound(q) ==
    /\ (ix[q].pc = "getPlugin" /\ ix'[q].pc = "setPlugin"
            /\ ~HasCatalog(store, ix[q].opts.Plugin)) =>
          /\ ix'[q].index.ID = ix[q].opts.Plugin
          /\ ix'[q].index.Versions = << >>
    /\ (ix[q].pc = "getRegistry" /\ ix'[q].pc = "setRegistry"
            /\ RegistryIndexKey \notin DOMAIN store) =>
          ix'[q].registry.Plugins = << >>

\* C14: a fetch of the plugin catalog or of the registry catalog that fails
\* (GetObject error other than not-found, unreadable or undecodable body)
\* makes UpdateIndex return that error, and nothing is written to the bucket
\* from then on until the next call; a fetch that finds no object is no error
\* and goes on with an empty catalog.
C14_FetchFailureAborts ==
    [][/\ C14_Fetch(1, "getPlugin", "setPlugin")
       /\ C14_Fetch(1, "getRegistry", "setRegistry")
       /\ C14_NotFound(1)
       /\ (ix[1].pc = "returned" => store' = store)]_vars

\* A decode failure of the registry catalog, after the plugin catalog of the
\* call was written: the registry is as it was before the call.
C14_Witness ==
    /\ calls = 2
    /\ ix[1].pc = "returned"
    /\ ix[1].err = FetchErr("decode", "registry index")
    /\ Len(Catalog(store, ix[1].opts.Plugin).versions) = 2
    /\ Len(store[RegistryIndexKey].plugins) = 1
    /\ store[RegistryIndexKey].plugins[1].latest_version.version
          # Catalog(store, ix[1].opts.Plugin).latest_version.version

\* The releases updateIndex processes in a call of publisher q (those it
\* does not skip), and what can go wrong with their files.
Processed(q) ==
    { r \in Range(ToReleases(ix[q].opts)) : r.Plugin = ix[q].index.ID }
HashFails(q) ==
    \E r \in Processed(q) : ~(Opens(files, r.Path) /\ Reads(files, r.Path))
StatFails(q) ==
    \E r \in Processed(q) : Opens(files, r.Path) /\ ~Stats(files, r.Path)

\* The record a call of publisher q has built.
BuiltRecord(q) == ix[q].pluginIndex.LatestVersion

C16_MismatchSkipped ==
    [][/\ (ix[1].pc = "setPlugin" /\ Len(ToReleases(ix[1].opts)) >= 1
             /\ \A r \in Processed(1) : Opens(files, r.Path) /\ Reads(files, r.Path)) =>
            /\ ix'[1].pc \in {"getRegistry", "returned"}
            /\ DOMAIN (BuiltRecord(1))'.Architectures = { OSArch(r) : r \in Processed(1) }
            /\ StoreOp(1, "put", PluginIndexKey(ix[1].index.ID)) \in storeOps'
            /\ ix'[1].pc = "getRegistry" =>
                  /\ HasCatalog(store', ix[1].index.ID)
                  /\ Catalog(store', ix[1].index.ID).latest_version
                        = MarshalVersion((BuiltRecord(1))')
       /\ (ix[1].pc = "setRegistry" /\ ix'[1].err = Nil) =>
            \E e \in Range(store'[RegistryIndexKey].plugins) :
                e.id = ix[1].index.ID /\ e.latest_version = MarshalVersion(BuiltRecord(1))]_vars

C16_Witness ==
    /\ ix[1].pc = "returned"
    /\ ix[1].err = Nil
    /\ ix[1].opts.Plugin = "p"
    /\ DOMAIN ix[1].opts.Paths = TargetKeys
    /\ \E k \in TargetKeys : ~Opens(files, ArtifactPath(k))
    /\ HasCatalog(store, "x")
    /\ Len(Catalog(store, "x").versions) = 2
    /\ Catalog(store, "x").latest_version.version = "1.2.0"
    /\ Catalog(store, "x").latest_version.architectures = << >>
    /\ \E e \in Range(store[RegistryIndexKey].plugins) :
          e.id = "x" /\ e.latest_version.version = "1.2.0"

\* RunPackCommand has been through its loop over the build results (it
\* returned, with or without error).
PackEnded == cmd = "package" /\ bpc = "done" /\ cpc \notin {"pack", "tar"}

\* C17 as stated: a TarGz failure for one platform ends the packaging of that
\* platform only: when RunPackCommand has returned, TarGz was called for
\* every platform whose build succeeded.
C17_OtherPlatformsArchived ==
    PackEnded =>
        \A i \in DOMAIN binResults :
            binResults[i].Err = Nil =>
                \E c \in tarCalls : c.Platform = binResults[i].Platform

\* gunzip: the uncompressed blocks of a well-formed stream (header,
\* compressed blocks, trailer whose length matches), else none.
WellFormedGz(bytes) ==
    /\ Len(bytes) >= 2
    /\ bytes[1] = GzHeader
    /\ bytes[Len(bytes)] = GzTrailer(Len(bytes) - 2)
    /\ \A i \in 2..(Len(bytes) - 1) : bytes[i].z = "blk"

Gunzip(bytes) ==
    IF WellFormedGz(bytes) THEN [i \in 1..(Len(bytes) - 2) |-> bytes[i + 1].e] ELSE << >>

\* tar -x: the entries read from position i up to the end-of-archive blocks;
\* a header is followed by the content blocks its size announces.
RECURSIVE UntarFrom(_, _)
UntarFrom(blocks, i) ==
    IF i > Len(blocks) \/ blocks[i].t = "eof" THEN {}
    ELSE LET h == blocks[i]
             hasData == h.size > 0 /\ i < Len(blocks) /\ blocks[i + 1].t = "dat"
             entry == [kind |-> h.t, name |-> h.name,
                       data |-> IF hasData THEN blocks[i + 1].data ELSE << >>]
         IN  {entry} \cup UntarFrom(blocks, i + (IF hasData THEN 2 ELSE 1))

Extract(bytes) == UntarFrom(Gunzip(bytes), 1)

\* The regular files of a tree, by relative path.
RegularFiles(tree) ==
    { [kind |-> "hdr",
       name |-> Slashed(SubSeq(n.path, Len(SrcDir) + 1, Len(n.path))),
       data |-> n.data] : n \in { m \in tree : m.kind = "file" } }

TarSucceeded == tz.pc = "returned" /\ tz.err = Nil

\* C18: a TarGz call that returns an error raised before its cleanup step
\* (create, walk, close of the writers, sidecar) leaves the staging
\* directory as it was; the directory is touched only after the archive was
\* closed and the sidecar written.
C18_FailureKeepsStaging ==
    /\ (tz.pc = "returned" /\ tz.err # Nil /\ tz.err.cause # "cleanup") =>
          tz.tree = tz.tree0
    /\ tz.tree # tz.tree0 =>
          /\ tz.twClosed
          /\ tz.gzClosed
          /\ WellFormedGz(tz.out)
          /\ tz.sidecar # << >>

C18_Witness ==
    /\ tz.pc = "returned"
    /\ tz.err = Error("TarGz", "sidecar")
    /\ tz.outExists
    /\ WellFormedGz(tz.out)
    /\ tz.sidecar = << >>
    /\ tz.tree = tz.tree0
    /\ \E n \in tz.tree : n.kind = "file" /\ Len(n.data) > 0

\* C19: extracting the archive a successful TarGz call wrote yields exactly
\* the regular files of the staging directory as it was, with their paths
\* relative to it and their contents, and no directory entry.
C19_RoundTrip ==
    TarSucceeded =>
        /\ WellFormedGz(tz.out)
        /\ Extract(tz.out) = RegularFiles(tz.tree0)
        /\ \A e \in Extract(tz.out) : e.kind = "hdr"

C19_Witness ==
    /\ TarSucceeded
    /\ \E n \in tz.tree0 : n.kind = "dir" /\ n.path = SrcDir \o << "assets" >>
    /\ ~\E n \in tz.tree0 : n.path = SrcDir \o << "assets", "index.js" >>
    /\ Extract(tz.out) =
          { [kind |-> "hdr", name |-> "bin/plugin", data |-> << 1, 2 >>],
            [kind |-> "hdr", name |-> "plugin.yaml", data |-> << >>] }

\* C20: the hasher receives exactly the bytes the archive file receives; the
\* digest in the sidecar is the hash of the whole file as it is when TarGz
\* returns (the compressed stream including what the close of the tar and
\* gzip writers emits), taken after both writers were closed.
C20_DigestOfArchiveBytes ==
    /\ tz.err = Nil => tz.hashed = tz.out
    /\ tz.sidecar # << >> =>
          /\ tz.twClosed
          /\ tz.gzClosed
          /\ tz.sidecar[1] = Sha256Hex(tz.out)
          /\ WellFormedGz(tz.out)
          /\ tz.out[Len(tz.out) - 1].e = TarEnd

\* A success where the compressor held blocks back until the close.
C20_Witness ==
    /\ TarSucceeded
    /\ tz.sidecar = << Sha256Hex(tz.out) >>
    /\ Len(tz.out) >= 5
    /\ tz.count = Len(tz.out) - 2
    /\ \E n \in tz.tree0 : n.kind = "file" /\ Len(n.data) > 0

\* The package command was started on a request RunPackCommand must reject:
\* the output directory is empty or "/", or the descriptor cannot be read,
\* or it lacks a required field.
InvalidRequest ==
    \/ outdir = ""
    \/ outdir = "/"
    \/ DescriptorPath(pluginDir) \notin DOMAIN files
    \/ MissingFields(files[DescriptorPath(pluginDir)].meta) # {}

\* C21: on a validation error (empty output directory, "/" as output
\* directory, unreadable descriptor, descriptor missing a required field)
\* RunPackCommand returns an error; no build task is ever started and no
\* staging directory is ever created.
C21_ValidationAbortsBeforeBuild ==
    (cmd = "package" /\ InvalidRequest) =>
        /\ bpc = "idle"
        /\ uiPc = "none"
        /\ uiStarted = 0
        /\ binPc = << >>
        /\ fsOps = {}
        /\ dirs = {}
        /\ tarCalls = {}
        /\ cpc \in {"pack", "returned"}
        /\ cpc = "returned" => cmdErr # Nil

C21_Witness ==
    /\ cmd = "package"
    /\ cpc = "returned"
    /\ outdir = "build"
    /\ DescriptorPath(pluginDir) \in DOMAIN files
    /\ MissingFields(files[DescriptorPath(pluginDir)].meta) = {"capabilities"}
    /\ cmdErr = Error("plugin.yaml is missing required fields", "")
    /\ bpc = "idle"
    /\ dirs = {}

\* What the claim about Upload says of one call, given the errors a failed
\* call may return: the key is returned with a nil error exactly when the
\* put succeeded and the object was confirmed; a failed call returns no key
\* and one of the errors of its case.
UploadContract(u, withOpenError) ==
    /\ (u.err = Nil) <=> (u.answer = "ok" /\ u.confirmed)
    /\ u.err = Nil => u.key = BucketPath(u.release)
    /\ u.err # Nil =>
          /\ u.key = ""
          /\ \/ /\ u.answer = "EntityTooLarge"
                /\ u.err.kind = "the object is too large"
             \/ /\ u.answer = "other"
                /\ u.err = Error("couldn't upload file", BucketPath(u.release))
             \/ /\ u.answer = "ok"
                /\ ~u.confirmed
                /\ u.err.kind = "failed attempt to wait for object"
             \/ /\ withOpenError
                /\ u.answer = "none"
                /\ u.err = Error("couldn't open file", u.release.Path)

\* C22 as stated: Upload returns the remote key as success only when the put
\* and the confirmation succeeded; otherwise it returns exactly one of three
\* errors: "too large" when the store rejects the object for size, an error
\* naming the target key for any other put failure, and an unconfirmed
\* error when the put succeeded and the wait failed.
C22_ThreeErrors ==
    \A i \in DOMAIN uploads : UploadContract(uploads[i], FALSE)

\* C22 amended: Upload returns the remote key as success only when the put
\* and the confirmation succeeded; otherwise it returns exactly one of four
\* errors: the three above, and, when the local file cannot be opened, an
\* error naming that file, returned before anything is sent to the store.
C22_FourErrors ==
    \A i \in DOMAIN uploads : UploadContract(uploads[i], TRUE)

C22_Witness ==
    /\ Len(uploads) = 2
    /\ uploads[1].err = Nil
    /\ uploads[1].key = BucketPath(uploads[1].release)
    /\ uploads[1].key \in DOMAIN store
    /\ uploads[2].answer = "none"
    /\ uploads[2].err = Error("couldn't open file", uploads[2].release.Path)
    /\ BucketPath(uploads[2].release) \notin DOMAIN store
    /\ cpc = "returned"
    /\ cmdErr = uploads[2].err

\* The key the storage layout gives a release artifact:
\* "<plugin-id>/<version>/<os>_<arch>.tar.gz".
LayoutKey(r) ==
    r.Plugin \o "/" \o r.Version \o "/" \o r.OS \o "_" \o r.Arch \o ".tar.gz"

\* C23 as stated: the remote key under which a Release artifact is stored
\* is "<plugin-id>/<version>/<os>_<arch>.tar.gz": every Upload that sent an
\* artifact to the store wrote it under that key, and returns that key.
C23_UnderscoreKey ==
    \A i \in DOMAIN uploads :
        (uploads[i].answer = "ok") =>
            /\ LayoutKey(uploads[i].release) \in DOMAIN store
            /\ store[LayoutKey(uploads[i].release)].doc = "artifact"
            /\ uploads[i].err = Nil => uploads[i].key = LayoutKey(uploads[i].release)

\* C24: Publish calls Upload for the releases of ToReleases one at a time,
\* in that order, each at most once, and stops at the first Upload that
\* fails: only the last call can have failed, after it no further release
\* is uploaded and no catalog is touched, the command returns that error,
\* and every object a call has put stays in the store.
C24_StopsAtFirstFailure ==
    /\ Len(uploads) <= Len(ToReleases(opts))
    /\ \A i \in DOMAIN uploads :
          /\ uploads[i].release = ToReleases(opts)[i]
          /\ i < Len(uploads) => uploads[i].err = Nil
          /\ uploads[i].err # Nil =>
                /\ cpc = "returned"
                /\ cmdErr = uploads[i].err
                /\ calls = 0
                /\ storeOps = {}
          /\ uploads[i].answer = "ok" =>
                /\ BucketPath(uploads[i].release) \in DOMAIN store
                /\ store[BucketPath(uploads[i].release)].doc = "artifact"

\* After a failed Upload the history of Upload calls never grows.
C24_NoLaterUpload ==
    [][(uploads # << >> /\ uploads[Len(uploads)].err # Nil) => uploads' = uploads]_vars

C24_Witness ==
    /\ Len(ToReleases(opts)) = 2
    /\ Len(uploads) = 2
    /\ uploads[1].err = Nil
    /\ uploads[2].answer = "EntityTooLarge"
    /\ uploads[1].key \in DOMAIN store
    /\ BucketPath(uploads[2].release) \notin DOMAIN store
    /\ cpc = "returned"
    /\ cmdErr = uploads[2].err

\* The UpdateIndex call of publisher q has returned an error from its
\* registry stage: getRegistryIndex failed, or the PutObject of
\* setRegistryIndex failed.
RegistryStageFailed(q) ==
    /\ ix[q].pc = "returned"
    /\ ix[q].pluginIndex # IdleCall.pluginIndex
    /\ ix[q].err \in { FetchErr(o, "registry index") : o \in {"get", "read", "decode"} }
                     \cup { StoreErr("put", RegistryIndexKey) }

\* The plugin catalog is overwritten before the registry catalog is fetched.
C25_PluginFirst ==
    /\ ix[1].pc \in {"getRegistry", "setRegistry"} =>
          /\ HasCatalog(store, ix[1].pluginIndex.ID)
          /\ Catalog(store, ix[1].pluginIndex.ID) = MarshalPluginIndex(ix[1].pluginIndex)
    /\ StoreOp(1, "get", RegistryIndexKey) \in storeOps =>
          \E op \in storeOps : op.op = "put" /\ op.key # RegistryIndexKey

\* After a failure of the registry stage the plugin catalog holds the new
\* record, as last record and as latest_version, and no entry of the stored
\* registry catalog refers to it.
C25_Stranded ==
    RegistryStageFailed(1) =>
        LET id == ix[1].pluginIndex.ID
            new == MarshalVersion(ix[1].pluginIndex.LatestVersion)
        IN  /\ HasCatalog(store, id)
            /\ Catalog(store, id).latest_version = new
            /\ Catalog(store, id).versions[Len(Catalog(store, id).versions)] = new
            /\ RegistryIndexKey \in DOMAIN store =>
                  \A e \in Range(store[RegistryIndexKey].plugins) : e.latest_version # new

\* How many records of a version the stored catalog of a plugin holds.
RecordsOf(st, plugin, version) ==
    IF HasCatalog(st, plugin)
    THEN Cardinality({ i \in DOMAIN Catalog(st, plugin).versions :
                         Catalog(st, plugin).versions[i].version = version })
    ELSE 0

\* Every overwrite of a plugin catalog adds one record of the version being
\* published, whether or not the catalog already holds a record of it.
C25_RerunAppends ==
    (ix[1].pc = "setPlugin" /\ store' # store) =>
        RecordsOf(store', ix[1].opts.Plugin, ix[1].opts.Version)
            = RecordsOf(store, ix[1].opts.Plugin, ix[1].opts.Version) + 1

EntryPositions(st, plugin) ==
    IF RegistryIndexKey \in DOMAIN st
    THEN { i \in DOMAIN st[RegistryIndexKey].plugins :
             st[RegistryIndexKey].plugins[i].id = plugin }
    ELSE {}

\* C26: after every successful UpdateIndex, run without a concurrent
\* publisher, the store holds the plugin catalog this call wrote, under the
\* key of the id p it carries, and the registry catalog has one entry for
\* p, with the same id, name, icon, description and latest_version as that
\* catalog.
C26_EntryMirrorsCatalog ==
    (ix[1].pc = "returned" /\ ix[1].err = Nil) =>
        LET p == ix[1].pluginIndex.ID IN
        /\ HasCatalog(store, p)
        /\ Catalog(store, p) = MarshalPluginIndex(ix[1].pluginIndex)
        /\ Cardinality(EntryPositions(store, p)) = 1
        /\ \A i \in EntryPositions(store, p) :
              LET e == store[RegistryIndexKey].plugins[i]
                  cat == Catalog(store, p)
              IN  /\ e.id = cat.id
                  /\ e.name = cat.name
                  /\ e.icon = cat.icon
                  /\ e.description = cat.description
                  /\ e.latest_version = cat.latest_version

C26_Witness ==
    /\ calls = 2
    /\ ix[1].pc = "returned"
    /\ ix[1].err = Nil
    /\ ix[1].opts.Plugin = "q"
    /\ Len(Catalog(store, "q").versions) = 2
    /\ Catalog(store, "q").description = "d2"
    /\ Catalog(store, "q").latest_version.version = "1.3.0"
    /\ Len(store[RegistryIndexKey].plugins) = 1
    /\ store[RegistryIndexKey].plugins[1].description = "d2"
    /\ store[RegistryIndexKey].plugins[1].latest_version = Catalog(store, "q").latest_version

\* The entries of the stored registry catalog (none when it does not exist).
StoredEntries(st) ==
    IF RegistryIndexKey \in DOMAIN st THEN st[RegistryIndexKey].plugins ELSE << >>

\* The entries new keep every entry of old at its position, those of another
\* plugin than p unchanged.
RegistryFrame(old, new, p) ==
    /\ Len(new) >= Len(old)
    /\ \A i \in DOMAIN old :
          /\ new[i].id = old[i].id
          /\ old[i].id # p => new[i] = old[i]

\* Publisher q takes the last step of UpdateIndex, the write of the registry
\* catalog.
WritesRegistry(q) == ix[q].pc = "setRegistry" /\ ix'[q].pc = "returned"

\* No other publisher has written the registry catalog since q fetched it.
RegistryAsFetched(q) ==
    MarshalRegistryIndex(ix[q].registry).plugins = StoredEntries(store)

\* C27 as stated: UpdateIndex for plugin p leaves every entry of the stored
\* registry catalog whose id differs from p unchanged, keeps the relative
\* order of all entries, and never removes an entry.
C27_OthersUntouched ==
    [][\A q \in Procs :
          WritesRegistry(q) =>
              RegistryFrame(StoredEntries(store), StoredEntries(store'),
                            ix[q].pluginIndex.ID)]_vars

\* C27 amended: UpdateIndex for plugin p, when no other publisher has
\* written the registry catalog between this call's fetch and its write,
\* leaves every entry whose id differs from p unchanged, keeps the
\* relative order of all entries, and removes no entry.
C27_OthersUntouchedUnlessRaced ==
    [][\A q \in Procs :
          (WritesRegistry(q) /\ RegistryAsFetched(q)) =>
              RegistryFrame(StoredEntries(store), StoredEntries(store'),
                            ix[q].pluginIndex.ID)]_vars

C27_Witness ==
    /\ ix[1].pc = "returned"
    /\ ix[1].err = Nil
    /\ ix[1].opts.Plugin = "p"
    /\ ix[2].pc = "idle"
    /\ Len(StoredEntries(store)) = 2
    /\ StoredEntries(store)[1] = MarshalEntry(HandWrittenRegistry.Plugins[1])
    /\ StoredEntries(store)[2].id = "p"

\* C28: for every Release that was uploaded by Publish and then indexed by
\* UpdateIndex, the version record stored for it holds, under the map key
\* "<os>_<arch>", an ArchitectureInfo whose download_url is the key Upload
\* returned and wrote the artifact to, "<plugin>/<version>/<os>-<arch>.tar.gz".
C28_DownloadUrlIsUploadKey ==
    HasCatalog(store, PluginId) =>
        LET rec == Catalog(store, PluginId).latest_version IN
        /\ uploads # << >>
        /\ \A i \in DOMAIN uploads :
              LET r == uploads[i].release
                  archKey == r.OS \o "_" \o r.Arch
              IN  /\ archKey \in DOMAIN rec.architectures
                  /\ rec.architectures[archKey].DownloadURL = uploads[i].key
                  /\ uploads[i].key
                        = r.Plugin \o "/" \o r.Version \o "/" \o r.OS \o "-" \o r.Arch
                            \o ".tar.gz"
                  /\ uploads[i].key \in DOMAIN store
                  /\ store[uploads[i].key].doc = "artifact"
        /\ Cardinality(DOMAIN rec.architectures) = Len(uploads)

C28_Witness ==
    /\ cmd = "package"
    /\ cpc = "returned"
    /\ cmdErr = Nil
    /\ Len(uploads) = 2
    /\ HasCatalog(store, PluginId)
    /\ DOMAIN Catalog(store, PluginId).latest_version.architectures
          = {"darwin_amd64", "darwin_arm64"}
    /\ Catalog(store, PluginId).latest_version.architectures["darwin_arm64"].DownloadURL
          = "p/1.2.0/darwin-arm64.tar.gz"
    /\ "p/1.2.0/darwin-arm64.tar.gz" \in DOMAIN store

\* RunPackCommand returned (meta, nil): the package command ended without
\* error, or went on to publish.
PackSucceeded ==
    /\ PackEnded
    /\ cmdErr.kind # "compression failed"
    /\ IF publishFlag
       THEN opts = PackagePublishOpts(meta, pluginDir, outdir)
       ELSE cpc = "returned" /\ cmdErr = Nil

\* C29: RunPackCommand never calls TarGz for a BuildResult whose Err is
\* non-nil, and build failures, of however many platforms, do not abort
\* packaging: unless a TarGz call itself fails, every platform whose build
\* succeeded is archived and RunPackCommand returns success.
C29_BuildFailuresDoNotAbort ==
    /\ \A c \in tarCalls : c.Err = Nil
    /\ (PackEnded /\ \A c \in tarCalls : c.failAt = "none") =>
          /\ \A i \in DOMAIN binResults :
                binResults[i].Err = Nil =>
                    \E c \in tarCalls :
                        /\ c.Platform = binResults[i].Platform
                        /\ c.OutputDir = binResults[i].OutputDir
          /\ Cardinality(tarCalls)
                = Cardinality({ i \in DOMAIN binResults : binResults[i].Err = Nil })
          /\ PackSucceeded

C29_Witness ==
    /\ PackSucceeded
    /\ ~publishFlag
    /\ Len(binResults) = 2
    /\ binResults[1].Err # Nil
    /\ binResults[2].Err = Nil
    /\ Cardinality(tarCalls) = 1
    /\ \E c \in tarCalls : c.Platform = binResults[2].Platform /\ c.failAt = "none"
    /\ PackOutPath(pluginDir, outdir, binResults[2].Platform) \in DOMAIN files
    /\ PackOutPath(pluginDir, outdir, binResults[1].Platform) \notin DOMAIN files

\* The publish request names no archive: every platform path is empty.
NoPaths == cmd = "publish" /\ DOMAIN opts.Paths = {}

\* What holds all along a publish run without paths: no Upload call is
\* made and no artifact is stored; UpdateIndex reads the plugin catalog and
\* nothing else, writes nothing, and never returns nil: it panics once the
\* plugin catalog is fetched, or returns the error of that fetch.
C30_NothingPublished ==
    NoPaths =>
        /\ ToReleases(opts) = << >>
        /\ uploads = << >>
        /\ \A k \in DOMAIN store : store[k].doc # "artifact"
        /\ cpc \in {"publish", "upload", "index", "returned"}
        /\ \A op \in storeOps :
              op.op = "get" /\ op.key = PluginIndexKey(opts.Plugin)
        /\ ix[1].pc \in {"idle", "getPlugin", "setPlugin", "crashed", "returned"}
        /\ ix[1].pc = "crashed" =>
              /\ StoreOp(1, "get", PluginIndexKey(opts.Plugin)) \in storeOps
              /\ ix[1].err = Nil
              /\ cpc = "index"
        /\ ix[1].pc = "returned" =>
              ix[1].err \in { FetchErr(o, "plugin index") : o \in {"get", "read", "decode"} }
        /\ cpc = "returned" => cmdErr = ix[1].err /\ cmdErr # Nil

\* C30: when a publish request has no non-empty platform path, ToReleases
\* yields no Release, Publish succeeds without uploading anything, and the
\* following UpdateIndex aborts after fetching the plugin catalog (it panics
\* when the fetch succeeded) and before writing any catalog object: no step
\* of the run changes the bucket, so both catalogs stay as they were.
C30_EmptyPublishAborts == []C30_NothingPublished /\ [][NoPaths => store' = store]_vars

C30_Witness ==
    /\ NoPaths
    /\ cpc = "index"
    /\ calls = 1
    /\ ix[1].pc = "crashed"
    /\ uploads = << >>
    /\ storeOps = {StoreOp(1, "get", PluginIndexKey(PluginId))}
    /\ store = PriorBucket

====
